---- MODULE Spec2Model ----
(***************************************************************************)
(* SugarLog: the asynchronous log delivery engine.                         *)
(*                                                                         *)
(*   ThreadSafeQueue<T> / BatchQueue<T>   (log_queue, src/unnamed/part_001)*)
(*   AsyncLogger                          (src/include/log_sink.hpp)       *)
(*                                                                         *)
(* Two specifications share the queue operators:                           *)
(*   QueueSpec  - client threads calling the queue's operations directly   *)
(*   Spec       - the AsyncLogger engine (producers, workers, lifecycle)   *)
(***************************************************************************)
EXTENDS Integers, Sequences, FiniteSets, TLC

\* ------------------------------------------------------------------ bounds
\* client threads of the queue
Producers == {"p1", "p2"}
Consumers == {"c1", "c2"}
Threads == Producers \cup Consumers
\* push / try_push calls issued by all producers together (the k-th call of
\* producer p carries the item <<p, k>>)
MaxPushes == 2
\* queue capacities tried (0 = unbounded)
MaxCapacity == 2
\* the calls issued, and the capacities tried, under fairness
MaxLivePushes == 2
LiveCapacities == {1}
\* push calls issued when only the blocking operations are used
MaxBlockingPushes == 3
\* largest explicit max_items argument of the batch operations
MaxBatchArg == 2
\* BatchQueue(size_t max_size = 0, size_t batch_size = 100)
DefaultBatchSize == 100
\* AsyncLoggerConfig values tried: batch_size is 1..MaxBatchSize, and
\* worker_threads is any size of an initial part of Workers
MaxBatchSize == 2
\* start() calls that find the engine stopped
MaxStarts == 2

Workers == {1, 2}

\* enum class LogLevel : uint8_t
TRACE == 0
DEBUG == 1
INFO == 2
WARN == 3
ERROR == 4
FATAL == 5
OFF == 6
Levels == {TRACE, DEBUG, INFO, WARN, ERROR, FATAL, OFF}

\* the sinks registered with the engine and the thresholds they start with
Sinks == {"s1", "s2"}
\* longest sink list built with add_sink, and the records logged meanwhile
MaxSinks == 2
MaxSinkLogs == 1
\* values of config_.flush_interval_ms, in ticks of the clock, the last
\* value the clock reaches, and the longest record of flush() calls kept
FlushIntervals == {1}
MaxTime == 1
MaxFlushLog == 2
\* the levels set_level is called with
SetLevels == {INFO}
\* an empty shared_ptr<LogSink>, and what add_sink may be handed
NullSink == "null"
Children == Sinks \cup {NullSink}
\* the thresholds given to a child directly, the levels of the records
\* dispatched to a filter and to a composite, the lengths a child list
\* grows to, and the log / flush calls made on a composite or a filter
ChildLevels == {INFO, ERROR}
RecordLevels == {INFO, WARN, FATAL}
CompositeRecordLevels == {WARN, FATAL}
ChildCounts == {1, 2}
MaxDispatch == 2
\* the timeouts wait_for_completion is called with, in ms, and the
\* std::chrono::milliseconds(1) it sleeps between two polls
Timeouts == {0, 1}
PollInterval == 1
\* log calls issued while the sink-list lock is watched, and the lengths
\* the sink list grows to meanwhile
MaxLockLogs == 2
LockSinkCounts == {1, 2}
\* log calls issued while two workers collect their batches
MaxBatchLogs == 3
\* the threads that call start() and stop(), or the LogManager, at the same
\* time; the names get_logger is asked for; no thread
Callers == {"a", "b"}
LoggerNames == {"x", "y"}
NoOwner == "none"
\* log calls issued around a call of stop
MaxStopLogs == 2
\* log calls issued while the mutexes are followed
MaxMutexLogs == 1
\* the lengths add_sink may bring the sink list to, and the times at which
\* the clock may advance, while the mutexes are followed
MutexSinkCounts == {1}
MutexTicks == {0}
\* the sink a FilterLogSink wraps, an empty std::function, and the filter
\* functions tried: each is the set of levels it returns true for
FilterChild == "s1"
NoFilter == <<>>
Predicates == {<<{}>>, <<{WARN, ERROR, FATAL}>>, <<{INFO}>>}

VARIABLES
    \* ---- ThreadSafeQueue members
    queue_,      \* std::queue<T> queue_, front first
    shutdown_,   \* std::atomic<bool> shutdown_
    max_size_,   \* size_t max_size_
    waitNE,      \* threads blocked on condition variable not_empty_
    waitNF,      \* threads blocked on condition variable not_full_
    \* ---- client threads of QueueSpec
    pc,          \* where each thread is: "idle" or inside a blocking call
    arg,         \* max_items of the pop_batch call a thread is blocked in
    ret,         \* what the call that returned last returned
    got,         \* every item a thread has received, in order
    nPush,       \* number of push / try_push calls a producer has issued
    pushed,      \* items in the order their push took effect
    nCleared,    \* items discarded by clear()
    qAtShutdown, \* what the queue held when shutdown() was first called
    pushBudget,  \* push / try_push / log calls the producers issue in all
    \* ---- AsyncLogger members
    batch_size,       \* config_.batch_size
    worker_threads,   \* config_.worker_threads
    auto_flush,       \* config_.auto_flush
    flush_interval_ms, \* config_.flush_interval_ms
    running_,         \* std::atomic<bool> running_
    stop_requested_,  \* std::atomic<bool> stop_requested_
    workers_,         \* std::vector<std::thread> workers_ (the ids in it)
    sinks_,           \* std::vector<std::shared_ptr<LogSink>> sinks_
    level_,           \* LogSink::level_ of every sink
    dropped_count_,   \* std::atomic<size_t> dropped_count_
    \* ---- the engine's threads
    wpc,         \* where each worker thread is in worker_thread_func
    batch,       \* the worker's local batch / remaining_msg
    cpc,         \* where the controller is: "idle" or joining inside stop
    aborted,     \* std::terminate was called: the process is gone
    nStarts,     \* start() calls that spawned workers
    sinkLog,     \* the sink->log(msg) calls that returned, as <<sink, msg>>, in order
    nRejected,   \* log() calls that failed because the queue was full
    \* ---- flushing
    last_flush_time_, \* steady_clock::time_point last_flush_time_, in ms
    now,         \* what steady_clock::now() returns, in ms
    flushLog,    \* the sinks whose flush() was invoked, in order
    \* ---- CompositeLogSink / FilterLogSink
    composite_sinks_, \* CompositeLogSink::sinks_, the children in order
    composite_level_, \* the composite's own LogSink::level_
    filter_,          \* FilterLogSink::filter_ (<<>>: an empty std::function)
    filter_level_,    \* the filter's own LogSink::level_
    childLog,         \* the log / flush calls the children received, in order
    nDispatched,      \* log / flush calls made on the composite or the filter
    \* ---- the thread inside wait_for_completion
    wfc_pc,      \* "idle", or the statement of wait_for_completion it is at
    wfc_timeout, \* the timeout argument, in ms
    wfc_start,   \* start_time
    wfc_wake,    \* when the sleep_for(1 ms) it is in ends
    wfc_end,     \* steady_clock::now() when the call returned
    wfc_ret,     \* what the call returned last: "none", "true" or "false"
    \* ---- LogManager members
    async_logger_,  \* std::unique_ptr<AsyncLogger> async_logger_ is non-null
    manager_sinks_, \* LogManager::sinks_
    initialized_,   \* std::atomic<bool> initialized_
    manager_level,  \* config_.level
    \* ---- a comparison of two LogLevel values
    lhs,         \* the left operand
    rhs,         \* the right operand
    cmp,         \* the operators applied to them so far, each with its result
    \* ---- the engine's sink-list lock
    sinks_mutex_, \* std::mutex sinks_mutex_ is held
    \* ---- what the steps taken one lock at a time record
    lastBy,      \* the number of the last record each worker dispatched
    wheld,       \* the mutexes each worker thread holds
    cheld,       \* the mutexes each client thread holds
    \* ---- threads that call start() and stop() at the same time
    spc,         \* where each of them is inside start() or stop()
    joiners,     \* for each worker thread, the callers that called join() on it
    \* ---- LogManager::mutex_ and the calls that take it
    manager_mutex_,    \* the thread that owns LogManager::mutex_, or NoOwner
    mpc,               \* where each caller is inside a LogManager call
    manager_shutdown_, \* LogManager::shutdown_
    named_loggers_     \* the keys of LogManager::named_loggers_

qvars == <<queue_, shutdown_, max_size_, waitNE, waitNF>>
tvars == <<pc, arg, ret, got, nPush, pushed, nCleared, qAtShutdown, pushBudget>>
cfgvars == <<batch_size, worker_threads, auto_flush, flush_interval_ms>>
fvars == <<last_flush_time_, now, flushLog>>
evars == <<running_, stop_requested_, workers_, sinks_, level_, dropped_count_,
           wpc, batch, cpc, aborted, nStarts, sinkLog, nRejected, fvars>>
dvars == <<composite_sinks_, composite_level_, filter_, filter_level_, childLog,
           nDispatched>>
\* what no operation of the queue or of the engine writes
wfcvars == <<wfc_pc, wfc_timeout, wfc_start, wfc_wake, wfc_end, wfc_ret>>
mvars == <<async_logger_, manager_sinks_, initialized_, manager_level>>
lvars == <<lhs, rhs, cmp>>
yvars == <<spc, joiners>>
zvars == <<manager_mutex_, mpc, manager_shutdown_, named_loggers_>>
xvars == <<lastBy, wheld, cheld, yvars, zvars>>
ovars == <<cfgvars, dvars, wfcvars, mvars, lvars, sinks_mutex_, xvars>>
vars == <<qvars, tvars, ovars, evars>>

\* a return value: ok is the bool returned (count > 0 for the batch
\* operations), n the number of items moved
Ret(k, c) == [ok |-> k, n |-> c]

\* number of push / try_push calls issued so far
RECURSIVE SumOver(_, _)
SumOver(f, S) ==
    IF S = {} THEN 0
    ELSE LET x == CHOOSE y \in S : TRUE IN f[x] + SumOver(f, S \ {x})

CallsIssued == SumOver(nPush, Producers)

\* ------------------------------------------------------- queue predicates
\* mutation of NotFullPred: the size test off by one
NotFullPred_OffByOne == Len(queue_) <= max_size_ \/ shutdown_

\* the wait predicate of push: queue_.size() < max_size_ || shutdown_
NotFullPred == Len(queue_) < max_size_ \/ shutdown_

\* the wait predicate of pop / pop_batch: !queue_.empty() || shutdown_
NotEmptyPred == queue_ # <<>> \/ shutdown_

\* mutation of TryPushFull: > for >=
TryPushFull_Strict == max_size_ > 0 /\ Len(queue_) > max_size_

\* try_push: max_size_ > 0 && queue_.size() >= max_size_
TryPushFull == max_size_ > 0 /\ Len(queue_) >= max_size_

\* mutation of NotifyOne: the notification is not delivered
NotifyOne_Lost(ws) == {ws}

\* condition_variable::notify_one: one waiter, if any, leaves the wait set
NotifyOne(ws) == IF ws = {} THEN {ws} ELSE {ws \ {w} : w \in ws}

\* condition_variable::notify_all
NotifyAll(ws) == {}

\* mutation of TakeBatch: the items are collected back first
RECURSIVE TakeBatch_Reversed(_, _)
TakeBatch_Reversed(q, n) ==
    IF q # <<>> /\ n > 0 THEN TakeBatch_Reversed(Tail(q), n - 1) \o <<Head(q)>> ELSE <<>>

\* the loop of pop_batch: the first min(max_items, size) items, front first
RECURSIVE TakeBatch(_, _)
TakeBatch(q, n) ==
    IF q # <<>> /\ n > 0 THEN <<Head(q)>> \o TakeBatch(Tail(q), n - 1) ELSE <<>>

\* mutation of DropBatch: one item more is removed than is handed out
RECURSIVE DropBatch_OneMore(_, _)
DropBatch_OneMore(q, n) ==
    IF q # <<>> /\ n >= 0 THEN DropBatch_OneMore(Tail(q), n - 1) ELSE q

\* what the loop of pop_batch leaves in the queue
RECURSIVE DropBatch(_, _)
DropBatch(q, n) ==
    IF q # <<>> /\ n > 0 THEN DropBatch(Tail(q), n - 1) ELSE q

\* if (max_items == 0) max_items = batch_size_
EffMax(n) == IF n = 0 THEN DefaultBatchSize ELSE n

\* ------------------------------------------------------------ queue steps
\* queue_.push(item); not_empty_.notify_one(); return true
Store(t, item) ==
    /\ queue_' = Append(queue_, item)
    /\ waitNE' \in NotifyOne(waitNE)
    /\ pushed' = Append(pushed, item)
    /\ ret' = Ret(TRUE, 1)
    /\ pc' = [pc EXCEPT ![t] = "idle"]
    /\ UNCHANGED <<shutdown_, max_size_, got, nCleared, qAtShutdown, pushBudget>>

\* a call returns false / 0 and changes nothing in the queue
Fail(t) ==
    /\ ret' = Ret(FALSE, 0)
    /\ pc' = [pc EXCEPT ![t] = "idle"]
    /\ UNCHANGED <<queue_, shutdown_, max_size_, got, pushed, nCleared, qAtShutdown, pushBudget>>

\* mutation of TakeOne: the front item is handed out but not removed
TakeOne_NoRemove(t) ==
    /\ queue_' = queue_
    /\ waitNF' \in NotifyOne(waitNF)
    /\ got' = [got EXCEPT ![t] = Append(@, Head(queue_))]
    /\ ret' = Ret(TRUE, 1)
    /\ pc' = [pc EXCEPT ![t] = "idle"]
    /\ UNCHANGED <<shutdown_, max_size_, pushed, nCleared, qAtShutdown, pushBudget>>

\* item = std::move(queue_.front()); queue_.pop(); not_full_.notify_one()
TakeOne(t) ==
    /\ queue_' = Tail(queue_)
    /\ waitNF' \in NotifyOne(waitNF)
    /\ got' = [got EXCEPT ![t] = Append(@, Head(queue_))]
    /\ ret' = Ret(TRUE, 1)
    /\ pc' = [pc EXCEPT ![t] = "idle"]
    /\ UNCHANGED <<shutdown_, max_size_, pushed, nCleared, qAtShutdown, pushBudget>>

\* batch.clear(); the move loop; not_full_.notify_all(); return count
TakeMany(t, n) ==
    /\ queue_' = DropBatch(queue_, EffMax(n))
    /\ waitNF' = NotifyAll(waitNF)
    /\ got' = [got EXCEPT ![t] = @ \o TakeBatch(queue_, EffMax(n))]
    /\ ret' = Ret(TRUE, Len(TakeBatch(queue_, EffMax(n))))
    /\ pc' = [pc EXCEPT ![t] = "idle"]
    /\ UNCHANGED <<shutdown_, max_size_, pushed, nCleared, qAtShutdown, pushBudget>>

\* a thread starts waiting on not_full_ / not_empty_
BlockNF(t, where) ==
    /\ pc' = [pc EXCEPT ![t] = where]
    /\ waitNF' = waitNF \cup {t}
    /\ UNCHANGED <<queue_, shutdown_, max_size_, waitNE, ret, got, pushed, nCleared, qAtShutdown, pushBudget>>

BlockNE(t, where) ==
    /\ pc' = [pc EXCEPT ![t] = where]
    /\ waitNE' = waitNE \cup {t}
    /\ UNCHANGED <<queue_, shutdown_, max_size_, waitNF, ret, got, pushed, nCleared, qAtShutdown, pushBudget>>

\* ----------------------------------------------------------------- push
\* mutation of PushBody: no shutdown test after the wait
PushBody_NoRecheck(t, item) ==
    IF max_size_ > 0 /\ ~NotFullPred
    THEN BlockNF(t, "push_wait")
    ELSE IF max_size_ > 0 /\ Len(queue_) >= max_size_
         THEN Fail(t) /\ UNCHANGED <<waitNE, waitNF>>
         ELSE Store(t, item) /\ UNCHANGED waitNF

\* push after its first shutdown test: the wait on not_full_, the second
\* shutdown test, the store
PushBody(t, item) ==
    IF max_size_ > 0 /\ ~NotFullPred
    THEN BlockNF(t, "push_wait")
    ELSE IF max_size_ > 0 /\ shutdown_
         THEN Fail(t) /\ UNCHANGED <<waitNE, waitNF>>
         ELSE Store(t, item) /\ UNCHANGED waitNF

\* bool push(T&& item): the call
Push(t) ==
    /\ t \in Producers /\ pc[t] = "idle" /\ CallsIssued < pushBudget
    /\ nPush' = [nPush EXCEPT ![t] = @ + 1]
    /\ UNCHANGED <<arg, ovars, evars>>
    /\ IF shutdown_
       THEN Fail(t) /\ UNCHANGED <<waitNE, waitNF>>
       ELSE PushBody(t, <<t, nPush[t] + 1>>)

\* push: a woken waiter re-takes the lock and re-evaluates the predicate;
\* its item is the one of its last call
PushWake(t) ==
    /\ pc[t] = "push_wait" /\ t \notin waitNF
    /\ PushBody(t, <<t, nPush[t]>>)
    /\ UNCHANGED <<arg, nPush, ovars, evars>>

\* bool try_push(T&& item): the body, under the queue mutex
TryPushBody(t, item) ==
    IF shutdown_ \/ TryPushFull
    THEN Fail(t) /\ UNCHANGED <<waitNE, waitNF>>
    ELSE Store(t, item) /\ UNCHANGED waitNF

TryPush(t) ==
    /\ t \in Producers /\ pc[t] = "idle" /\ CallsIssued < pushBudget
    /\ nPush' = [nPush EXCEPT ![t] = @ + 1]
    /\ TryPushBody(t, <<t, nPush[t] + 1>>)
    /\ UNCHANGED <<arg, ovars, evars>>

\* ------------------------------------------------------------------ pop
\* mutation of PopTail: a shut-down queue refuses to hand out what it holds
PopTail_ClosedFails(t) ==
    IF shutdown_
    THEN Fail(t) /\ UNCHANGED <<waitNE, waitNF>>
    ELSE TakeOne(t) /\ UNCHANGED waitNE

\* pop once the wait on not_empty_ is over
PopTail(t) ==
    IF shutdown_ /\ queue_ = <<>>
    THEN Fail(t) /\ UNCHANGED <<waitNE, waitNF>>
    ELSE TakeOne(t) /\ UNCHANGED waitNE

\* bool pop(T& item): the wait, then the rest
PopBody(t) ==
    IF ~NotEmptyPred THEN BlockNE(t, "pop_wait") ELSE PopTail(t)

Pop(t) ==
    /\ t \in Consumers /\ pc[t] = "idle"
    /\ PopBody(t)
    /\ UNCHANGED <<arg, nPush, ovars, evars>>

PopWake(t) ==
    /\ pc[t] = "pop_wait" /\ t \notin waitNE
    /\ PopBody(t)
    /\ UNCHANGED <<arg, nPush, ovars, evars>>

\* bool try_pop(T& item)
TryPop(t) ==
    /\ t \in Consumers /\ pc[t] = "idle"
    /\ IF queue_ = <<>>
       THEN Fail(t) /\ UNCHANGED <<waitNE, waitNF>>
       ELSE TakeOne(t) /\ UNCHANGED waitNE
    /\ UNCHANGED <<arg, nPush, ovars, evars>>

\* bool pop(T& item, timeout): wait_for returns the predicate on expiry
TimedPopBody(t) ==
    IF ~NotEmptyPred THEN BlockNE(t, "tpop_wait") ELSE PopTail(t)

TimedPop(t) ==
    /\ t \in Consumers /\ pc[t] = "idle"
    /\ TimedPopBody(t)
    /\ UNCHANGED <<arg, nPush, ovars, evars>>

TimedPopWake(t) ==
    /\ pc[t] = "tpop_wait" /\ t \notin waitNE
    /\ TimedPopBody(t)
    /\ UNCHANGED <<arg, nPush, ovars, evars>>

\* the timeout expires: the thread leaves the wait set; wait_for returns
\* pred(), and on false the call returns false
TimedPopTimeout(t) ==
    /\ pc[t] = "tpop_wait"
    /\ IF ~NotEmptyPred
       THEN /\ waitNE' = waitNE \ {t}
            /\ Fail(t) /\ UNCHANGED waitNF
       ELSE /\ t \in waitNE
            /\ \E ws \in {waitNE \ {t}} :
                 IF shutdown_ /\ queue_ = <<>>
                 THEN Fail(t) /\ waitNE' = ws /\ UNCHANGED waitNF
                 ELSE TakeOne(t) /\ waitNE' = ws
    /\ UNCHANGED <<arg, nPush, ovars, evars>>

\* ------------------------------------------------------------ BatchQueue
PopBatchTail(t, n) ==
    IF shutdown_ /\ queue_ = <<>>
    THEN Fail(t) /\ UNCHANGED <<waitNE, waitNF>>
    ELSE TakeMany(t, n) /\ UNCHANGED waitNE

\* size_t pop_batch(Batch& batch, size_t max_items = 0)
PopBatchBody(t, n) ==
    IF ~NotEmptyPred THEN BlockNE(t, "popb_wait") ELSE PopBatchTail(t, n)

PopBatch(t) ==
    /\ t \in Consumers /\ pc[t] = "idle"
    /\ \E n \in 0..MaxBatchArg :
         /\ arg' = IF NotEmptyPred THEN arg ELSE [arg EXCEPT ![t] = n]
         /\ PopBatchBody(t, n)
    /\ UNCHANGED <<nPush, ovars, evars>>

PopBatchWake(t) ==
    /\ pc[t] = "popb_wait" /\ t \notin waitNE
    /\ PopBatchBody(t, arg[t])
    /\ arg' = IF NotEmptyPred THEN [arg EXCEPT ![t] = 0] ELSE arg
    /\ UNCHANGED <<nPush, ovars, evars>>

\* size_t try_pop_batch(Batch& batch, size_t max_items = 0)
TryPopBatch(t) ==
    /\ t \in Consumers /\ pc[t] = "idle"
    /\ \E n \in 0..MaxBatchArg :
         IF queue_ = <<>>
         THEN Fail(t) /\ UNCHANGED <<waitNE, waitNF>>
         ELSE TakeMany(t, n) /\ UNCHANGED waitNE
    /\ UNCHANGED <<arg, nPush, ovars, evars>>

\* ------------------------------------------------------ clear / shutdown
\* void clear(): empties the queue, not_full_.notify_all()
Clear ==
    /\ queue_ # <<>>
    /\ queue_' = <<>>
    /\ nCleared' = nCleared + Len(queue_)
    /\ waitNF' = NotifyAll(waitNF)
    /\ UNCHANGED <<shutdown_, max_size_, waitNE, pc, arg, ret, got, nPush, pushed, qAtShutdown, pushBudget, ovars, evars>>

\* mutation of Shutdown: not_full_ is not notified
Shutdown_NoWakeNotFull ==
    /\ shutdown_' = TRUE
    /\ qAtShutdown' = IF shutdown_ THEN qAtShutdown ELSE queue_
    /\ waitNE' = NotifyAll(waitNE)
    /\ waitNF' = waitNF
    /\ UNCHANGED <<queue_, max_size_, pc, arg, ret, got, nPush, pushed, nCleared, pushBudget, ovars, evars>>

\* void shutdown(): sets the flag, notify_all on both condition variables
Shutdown ==
    /\ shutdown_' = TRUE
    /\ qAtShutdown' = IF shutdown_ THEN qAtShutdown ELSE queue_
    /\ waitNE' = NotifyAll(waitNE)
    /\ waitNF' = NotifyAll(waitNF)
    /\ UNCHANGED <<queue_, max_size_, pc, arg, ret, got, nPush, pushed, nCleared, pushBudget, ovars, evars>>

\* condition_variable::wait may return without a notification (a spurious
\* wake-up): the thread leaves the wait set and re-evaluates its predicate
SpuriousWake(t) ==
    /\ t \in waitNE \cup waitNF
    /\ waitNE' = waitNE \ {t}
    /\ waitNF' = waitNF \ {t}
    /\ UNCHANGED <<queue_, shutdown_, max_size_, tvars, ovars, evars>>

\* =========================================================== AsyncLogger
\* LogMessage::level() of the record tagged <<p, k>>: the callers alternate
\* between INFO and ERROR records
LevelOf(msg) == IF msg[2] % 2 = 1 THEN INFO ELSE ERROR

\* static_cast<uint8_t>(level)
AsByte(l) == l % 256

\* inline bool operator>=(LogLevel lhs, LogLevel rhs)
LevelGE(a, b) == AsByte(a) >= AsByte(b)

\* inline bool operator>(LogLevel lhs, LogLevel rhs)
LevelGT(a, b) == AsByte(a) > AsByte(b)

\* mutation of LevelLE: < for <=
LevelLE_Strict(a, b) == AsByte(a) < AsByte(b)

\* inline bool operator<=(LogLevel lhs, LogLevel rhs)
LevelLE(a, b) == AsByte(a) <= AsByte(b)

\* inline bool operator<(LogLevel lhs, LogLevel rhs)
LevelLT(a, b) == AsByte(a) < AsByte(b)

\* the comparison operators of LogLevel by name; == is the enum's own
Apply(op, a, b) ==
    CASE op = "<" -> LevelLT(a, b)
      [] op = "<=" -> LevelLE(a, b)
      [] op = ">" -> LevelGT(a, b)
      [] op = ">=" -> LevelGE(a, b)
      [] op = "==" -> a = b

Operators == {"<", "<=", ">", ">=", "=="}

\* lhs op rhs is evaluated
Compare(op) ==
    /\ \A r \in BOOLEAN : <<op, r>> \notin cmp
    /\ cmp' = cmp \cup {<<op, Apply(op, lhs, rhs)>>}
    /\ UNCHANGED <<lhs, rhs, qvars, tvars, cfgvars, dvars, wfcvars, mvars,
                   sinks_mutex_, xvars, evars>>

\* mutation of should_log: > for >=
should_log_Strict(s, lvl) == lvl > level_[s]

\* LogSink::should_log: level >= level_
should_log(s, lvl) == LevelGE(lvl, level_[s])

\* process_message: every sink of sinks_, in order, gets msg if it accepts
\* the level; sl is the sinks' logs so far
RECURSIVE FanOut(_, _, _)
FanOut(sl, ss, msg) ==
    IF ss = <<>> THEN sl
    ELSE FanOut(IF should_log(Head(ss), LevelOf(msg))
                THEN Append(sl, <<Head(ss), msg>>)
                ELSE sl,
                Tail(ss), msg)

process_message(sl, msg) == FanOut(sl, sinks_, msg)

\* mutation of process_batch: the batch is walked from its last record
RECURSIVE process_batch_Reversed(_, _)
process_batch_Reversed(sl, b) ==
    IF b = <<>> THEN sl
    ELSE process_batch_Reversed(process_message(sl, b[Len(b)]), SubSeq(b, 1, Len(b) - 1))

\* process_batch: the records of the batch in batch order, each fanned out
RECURSIVE process_batch(_, _)
process_batch(sl, b) ==
    IF b = <<>> THEN sl
    ELSE process_batch(process_message(sl, Head(b)), Tail(b))

\* ---------------------------------------------------------- start / stop
\* the threads the loop of start() adds to workers_: worker_threads new ones
Spawned ==
    {w \in Workers \ workers_ :
        Cardinality({v \in Workers \ workers_ : v < w}) < worker_threads}

\* mutation of Spawn: stop_requested_ is not cleared
Spawn_KeepsStopFlag ==
    /\ nStarts < MaxStarts
    /\ running_' = TRUE
    /\ workers_' = workers_ \cup Spawned
    /\ wpc' = [w \in Workers |-> IF w \in Spawned THEN "loop" ELSE wpc[w]]
    /\ batch' = [w \in Workers |-> IF w \in Spawned THEN <<>> ELSE batch[w]]
    /\ nStarts' = nStarts + 1
    /\ UNCHANGED <<qvars, tvars, ovars, stop_requested_, sinks_, level_,
                   dropped_count_, cpc, aborted, sinkLog, nRejected, fvars>>

\* running_ = true; stop_requested_ = false; the emplace_back loop.  No
\* thread reads stop_requested_ between the two stores: the workers of the
\* previous run have been joined and the new ones are not spawned yet
Spawn ==
    /\ nStarts < MaxStarts
    /\ running_' = TRUE
    /\ stop_requested_' = FALSE
    /\ workers_' = workers_ \cup Spawned
    /\ wpc' = [w \in Workers |-> IF w \in Spawned THEN "loop" ELSE wpc[w]]
    /\ batch' = [w \in Workers |-> IF w \in Spawned THEN <<>> ELSE batch[w]]
    /\ nStarts' = nStarts + 1
    /\ UNCHANGED <<qvars, tvars, ovars, sinks_, level_, dropped_count_, cpc,
                   aborted, sinkLog, nRejected, fvars>>

\* mutation of Start: running_ is not tested
Start_NoCheck ==
    /\ ~aborted /\ cpc = "idle"
    /\ Spawn

\* void start(): if (running_) return;
Start ==
    /\ ~aborted /\ cpc = "idle"
    /\ IF running_ THEN UNCHANGED vars ELSE Spawn

\* void stop(bool wait_for_completion): up to the join loop.  Without the
\* join, workers_.clear() destroys joinable std::thread objects, which calls
\* std::terminate
StopRequest ==
    /\ stop_requested_' = TRUE
    /\ \E wait_for_completion \in BOOLEAN :
         IF wait_for_completion
         THEN /\ cpc' = "join"
              /\ UNCHANGED <<running_, workers_, aborted>>
         ELSE IF workers_ # {}
              THEN /\ aborted' = TRUE
                   /\ UNCHANGED <<running_, workers_, cpc>>
              ELSE /\ running_' = FALSE
                   /\ UNCHANGED <<workers_, cpc, aborted>>
    /\ UNCHANGED <<qvars, tvars, ovars, sinks_, level_, dropped_count_, wpc,
                   batch, nStarts, sinkLog, nRejected, fvars>>

\* if (!running_) return;
StopCall ==
    /\ ~aborted /\ cpc = "idle"
    /\ IF ~running_ THEN UNCHANGED vars ELSE StopRequest

\* stop: every worker.join() has returned; workers_.clear(); running_ = false
StopReturn ==
    /\ ~aborted /\ cpc = "join"
    /\ \A w \in workers_ : wpc[w] = "done"
    /\ workers_' = {}
    /\ wpc' = [w \in Workers |-> IF w \in workers_ THEN "none" ELSE wpc[w]]
    /\ running_' = FALSE
    /\ cpc' = "idle"
    /\ UNCHANGED <<qvars, tvars, ovars, stop_requested_, sinks_, level_,
                   dropped_count_, batch, aborted, nStarts, sinkLog, nRejected,
                   fvars>>

\* ------------------------------------------------------------------- log
\* mutation of LogCall: running_ is not tested
LogCall_NoCheck(t) ==
    /\ ~aborted /\ t \in Producers /\ pc[t] = "idle" /\ CallsIssued < pushBudget
    /\ nPush' = [nPush EXCEPT ![t] = @ + 1]
    /\ pc' = [pc EXCEPT ![t] = "log_push"]
    /\ UNCHANGED <<qvars, arg, ret, got, pushed, nCleared, qAtShutdown, pushBudget, ovars, evars>>

\* bool log(LogMessage message): if (!running_) return false;
LogCall(t) ==
    /\ ~aborted /\ t \in Producers /\ pc[t] = "idle" /\ CallsIssued < pushBudget
    /\ nPush' = [nPush EXCEPT ![t] = @ + 1]
    /\ IF ~running_
       THEN /\ ret' = Ret(FALSE, 0)
            /\ UNCHANGED pc
       ELSE /\ pc' = [pc EXCEPT ![t] = "log_push"]
            /\ UNCHANGED ret
    /\ UNCHANGED <<qvars, arg, got, pushed, nCleared, qAtShutdown, pushBudget, ovars, evars>>

\* log: return queue_.try_push(std::move(message)); nothing else is done
\* with the result
LogPush(t) ==
    /\ ~aborted /\ pc[t] = "log_push"
    /\ TryPushBody(t, <<t, nPush[t]>>)
    /\ nRejected' = IF ~shutdown_ /\ TryPushFull THEN nRejected + 1 ELSE nRejected
    /\ UNCHANGED <<arg, nPush, ovars, running_, stop_requested_, workers_,
                   sinks_, level_, dropped_count_, wpc, batch, cpc, aborted,
                   nStarts, sinkLog, fvars>>

\* double get_drop_rate(): total = get_queue_size() + get_dropped_count();
\* total > 0 ? dropped / total : 0.0, as the fraction <<numerator, denominator>>
get_drop_rate ==
    IF Len(queue_) + dropped_count_ > 0
    THEN <<dropped_count_, Len(queue_) + dropped_count_>>
    ELSE <<0, 1>>

\* --------------------------------------------------- worker_thread_func
WorkerFrame == UNCHANGED <<tvars, ovars, running_, stop_requested_, workers_,
                           sinks_, level_, dropped_count_, cpc, aborted,
                           nStarts, nRejected>>

\* worker steps that do not flush
NoFlush == UNCHANGED fvars

\* mutation of WorkerLoop: stop_requested_ is not looked at
WorkerLoop_IgnoresStop(w) ==
    /\ ~aborted /\ wpc[w] = "loop"
    /\ wpc' = [wpc EXCEPT ![w] = "collect"] /\ batch' = [batch EXCEPT ![w] = <<>>]
    /\ UNCHANGED <<qvars, sinkLog>>
    /\ WorkerFrame
    /\ NoFlush

\* while (!stop_requested_) { batch.clear(); ...
WorkerLoop(w) ==
    /\ ~aborted /\ wpc[w] = "loop"
    /\ IF stop_requested_
       THEN wpc' = [wpc EXCEPT ![w] = "drain"] /\ UNCHANGED batch
       ELSE wpc' = [wpc EXCEPT ![w] = "collect"] /\ batch' = [batch EXCEPT ![w] = <<>>]
    /\ UNCHANGED <<qvars, sinkLog>>
    /\ WorkerFrame
    /\ NoFlush

\* mutation of WorkerCollect: the record is copied and stays in the queue
WorkerCollect_NoRemove(w) ==
    /\ ~aborted /\ wpc[w] = "collect"
    /\ IF Len(batch[w]) < batch_size /\ ~stop_requested_
       THEN IF queue_ # <<>>
            THEN /\ queue_' = queue_
                 /\ waitNF' \in NotifyOne(waitNF)
                 /\ batch' = [batch EXCEPT ![w] = Append(@, Head(queue_))]
                 /\ UNCHANGED wpc
            ELSE /\ wpc' = [wpc EXCEPT ![w] = "process"]
                 /\ UNCHANGED <<queue_, waitNF, batch>>
       ELSE /\ wpc' = [wpc EXCEPT ![w] = "process"]
            /\ UNCHANGED <<queue_, waitNF, batch>>
    /\ UNCHANGED <<shutdown_, max_size_, waitNE, sinkLog>>
    /\ WorkerFrame
    /\ NoFlush

\* while (collected < config_.batch_size && !stop_requested_)
\*     if (queue_.try_pop(msg)) batch.push_back(msg) else { sleep; break; }
WorkerCollect(w) ==
    /\ ~aborted /\ wpc[w] = "collect"
    /\ IF Len(batch[w]) < batch_size /\ ~stop_requested_
       THEN IF queue_ # <<>>
            THEN /\ queue_' = Tail(queue_)
                 /\ waitNF' \in NotifyOne(waitNF)
                 /\ batch' = [batch EXCEPT ![w] = Append(@, Head(queue_))]
                 /\ UNCHANGED wpc
            ELSE /\ wpc' = [wpc EXCEPT ![w] = "process"]
                 /\ UNCHANGED <<queue_, waitNF, batch>>
       ELSE /\ wpc' = [wpc EXCEPT ![w] = "process"]
            /\ UNCHANGED <<queue_, waitNF, batch>>
    /\ UNCHANGED <<shutdown_, max_size_, waitNE, sinkLog>>
    /\ WorkerFrame
    /\ NoFlush

\* mutation of WorkerProcess: the batch is not dispatched
WorkerProcess_Skips(w) ==
    /\ ~aborted /\ wpc[w] = "process"
    /\ sinkLog' = sinkLog
    /\ batch' = [batch EXCEPT ![w] = <<>>]
    /\ wpc' = [wpc EXCEPT ![w] = "flush"]
    /\ UNCHANGED qvars
    /\ WorkerFrame
    /\ NoFlush

\* if (!batch.empty()) process_batch(batch);
WorkerProcess(w) ==
    /\ ~aborted /\ wpc[w] = "process"
    /\ sinkLog' = IF batch[w] # <<>> THEN process_batch(sinkLog, batch[w]) ELSE sinkLog
    /\ batch' = [batch EXCEPT ![w] = <<>>]
    /\ wpc' = [wpc EXCEPT ![w] = "flush"]
    /\ UNCHANGED qvars
    /\ WorkerFrame
    /\ NoFlush

\* should_auto_flush: now - last_flush_time_ >= config_.flush_interval_ms
should_auto_flush == now - last_flush_time_ >= flush_interval_ms

\* the body of flush(): sink->flush() for every sink of sinks_, in order,
\* then last_flush_time_ = steady_clock::now()
FlushBody ==
    /\ flushLog' = flushLog \o sinks_
    /\ last_flush_time_' = now
    /\ UNCHANGED now

\* if (config_.auto_flush && should_auto_flush()) flush();
WorkerFlush(w) ==
    /\ ~aborted /\ wpc[w] = "flush"
    /\ wpc' = [wpc EXCEPT ![w] = "loop"]
    /\ IF auto_flush /\ should_auto_flush THEN FlushBody ELSE UNCHANGED fvars
    /\ UNCHANGED <<qvars, batch, sinkLog>>
    /\ WorkerFrame

\* the final pass: while (queue_.try_pop(remaining_msg))
WorkerDrain(w) ==
    /\ ~aborted /\ wpc[w] = "drain"
    /\ IF queue_ # <<>>
       THEN /\ queue_' = Tail(queue_)
            /\ waitNF' \in NotifyOne(waitNF)
            /\ batch' = [batch EXCEPT ![w] = <<Head(queue_)>>]
            /\ wpc' = [wpc EXCEPT ![w] = "drain_msg"]
       ELSE /\ wpc' = [wpc EXCEPT ![w] = "done"]
            /\ UNCHANGED <<queue_, waitNF, batch>>
    /\ UNCHANGED <<shutdown_, max_size_, waitNE, sinkLog>>
    /\ WorkerFrame
    /\ NoFlush

\* the final pass: process_message(remaining_msg)
WorkerDrainMsg(w) ==
    /\ ~aborted /\ wpc[w] = "drain_msg"
    /\ sinkLog' = process_message(sinkLog, batch[w][1])
    /\ batch' = [batch EXCEPT ![w] = <<>>]
    /\ wpc' = [wpc EXCEPT ![w] = "drain"]
    /\ UNCHANGED qvars
    /\ WorkerFrame
    /\ NoFlush

\* ------------------------------------------------------- the sink list
\* what the sink operations leave alone
SinkFrame == UNCHANGED <<qvars, tvars, ovars, running_, stop_requested_,
                         workers_, dropped_count_, wpc, batch, cpc, aborted,
                         nStarts, sinkLog, nRejected>>

\* void add_sink(sink): sinks_.push_back(sink), under sinks_mutex_
AddSink(s) ==
    /\ ~aborted /\ Len(sinks_) < MaxSinks
    /\ sinks_' = Append(sinks_, s)
    /\ UNCHANGED <<level_, fvars>>
    /\ SinkFrame

\* the list without its first occurrence of s
RECURSIVE EraseFirst(_, _)
EraseFirst(ss, s) ==
    IF ss = <<>> THEN <<>>
    ELSE IF Head(ss) = s THEN Tail(ss)
    ELSE <<Head(ss)>> \o EraseFirst(Tail(ss), s)

\* void remove_sink(sink): std::find, then erase if found
RemoveSink(s) ==
    /\ ~aborted
    /\ sinks_' = EraseFirst(sinks_, s)
    /\ UNCHANGED <<level_, fvars>>
    /\ SinkFrame

\* void clear_sinks()
ClearSinks ==
    /\ ~aborted
    /\ sinks_' = <<>>
    /\ UNCHANGED <<level_, fvars>>
    /\ SinkFrame

\* mutation of SetLevel: only sinks_.front() is given the level
SetLevel_FrontOnly(lvl) ==
    /\ ~aborted
    /\ level_' = [s \in Sinks |-> IF sinks_ # <<>> /\ s = sinks_[1]
                                  THEN lvl ELSE level_[s]]
    /\ UNCHANGED <<sinks_, fvars>>
    /\ SinkFrame

\* void set_level(level): sink->set_level(level) for every sink of sinks_
SetLevel(lvl) ==
    /\ ~aborted
    /\ level_' = [s \in Sinks |-> IF s \in {sinks_[i] : i \in 1..Len(sinks_)}
                                  THEN lvl ELSE level_[s]]
    /\ UNCHANGED <<sinks_, fvars>>
    /\ SinkFrame

\* mutation of Flush: sinks whose threshold is above INFO are passed over
Flush_Filtered ==
    /\ ~aborted /\ Len(flushLog) + Len(sinks_) <= MaxFlushLog
    /\ flushLog' = flushLog \o SelectSeq(sinks_, LAMBDA x : level_[x] <= INFO)
    /\ last_flush_time_' = now
    /\ UNCHANGED <<now, sinks_, level_>>
    /\ SinkFrame

\* void flush(), called by a client thread
Flush ==
    /\ ~aborted /\ Len(flushLog) + Len(sinks_) <= MaxFlushLog
    /\ FlushBody
    /\ UNCHANGED <<sinks_, level_>>
    /\ SinkFrame

\* time passes
Tick ==
    /\ now < MaxTime
    /\ now' = now + 1
    /\ UNCHANGED <<qvars, tvars, ovars, running_, stop_requested_, workers_,
                   sinks_, level_, dropped_count_, wpc, batch, cpc, aborted,
                   nStarts, sinkLog, nRejected, last_flush_time_, flushLog>>

\* sink->log(msg) throws inside process_batch / process_message, at record
\* k of the worker's batch and at sink i of sinks_: the records and sinks
\* before that point have been served; nothing on the way out catches the
\* exception (process_*, worker_thread_func and the thread's lambda have no
\* handler), so it leaves the thread function and std::terminate is called
SinkThrows(w, k, i) ==
    /\ ~aborted /\ wpc[w] \in {"process", "drain_msg"}
    /\ k \in 1..Len(batch[w]) /\ i \in 1..Len(sinks_)
    /\ should_log(sinks_[i], LevelOf(batch[w][k]))
    /\ sinkLog' = FanOut(process_batch(sinkLog, SubSeq(batch[w], 1, k - 1)),
                         SubSeq(sinks_, 1, i - 1), batch[w][k])
    /\ wpc' = [wpc EXCEPT ![w] = "threw"]
    /\ aborted' = TRUE
    /\ UNCHANGED <<qvars, tvars, ovars, running_, stop_requested_, workers_,
                   sinks_, level_, dropped_count_, batch, cpc, nStarts, nRejected,
                   fvars>>

\* ====================================================== the two mutexes
\* the queue's mutex_ and the engine's sinks_mutex_, each lock_guard a step
\* that takes the mutex and a step that runs the body and gives it back
QueueMutex == "queue"
SinksMutex == "sinks"

\* no thread holds mutex m
Free(m) == (\A w \in Workers : m \notin wheld[w]) /\ (\A t \in Producers : m \notin cheld[t])

\* std::lock_guard<std::mutex> lock(m) by worker w: blocks until m is free
WorkerAcquire(w, m) ==
    /\ Free(m)
    /\ wheld' = [wheld EXCEPT ![w] = @ \cup {m}]
    /\ sinks_mutex_' = (sinks_mutex_ \/ m = SinksMutex)
    /\ UNCHANGED cheld

\* the lock_guard of worker w goes out of scope
WorkerRelease(w, m) ==
    /\ wheld' = [wheld EXCEPT ![w] = @ \ {m}]
    /\ sinks_mutex_' = (sinks_mutex_ /\ m # SinksMutex)
    /\ UNCHANGED cheld

\* std::lock_guard<std::mutex> lock(m) by client thread t
ClientAcquire(t, m) ==
    /\ Free(m)
    /\ cheld' = [cheld EXCEPT ![t] = @ \cup {m}]
    /\ sinks_mutex_' = (sinks_mutex_ \/ m = SinksMutex)
    /\ UNCHANGED wheld

\* the lock_guard of client thread t goes out of scope
ClientRelease(t, m) ==
    /\ cheld' = [cheld EXCEPT ![t] = @ \ {m}]
    /\ sinks_mutex_' = (sinks_mutex_ /\ m # SinksMutex)
    /\ UNCHANGED wheld

NoMutex == UNCHANGED <<wheld, cheld, sinks_mutex_>>

\* what no step of this part changes
HeldFrame == UNCHANGED <<shutdown_, max_size_, arg, got, nPush, nCleared,
                         qAtShutdown, pushBudget, cfgvars, dvars, wfcvars,
                         mvars, lvars, lastBy, yvars, zvars, running_,
                         stop_requested_, workers_, dropped_count_, cpc,
                         aborted, nStarts, now>>

\* what a worker step leaves alone besides
WorkerSide == UNCHANGED <<pc, ret, pushed, nRejected, waitNE>>

\* what a client step leaves alone besides
ClientSide == UNCHANGED <<wpc, batch, sinkLog>>

\* while (collected < batch_size && !stop_requested_): queue_.try_pop(msg)
\* takes the queue's mutex
CollectLock(w) ==
    /\ ~aborted /\ wpc[w] = "collect"
    /\ IF Len(batch[w]) < batch_size /\ ~stop_requested_
       THEN WorkerAcquire(w, QueueMutex) /\ wpc' = [wpc EXCEPT ![w] = "try_pop"]
       ELSE NoMutex /\ wpc' = [wpc EXCEPT ![w] = "process"]
    /\ UNCHANGED <<queue_, waitNF, batch, sinkLog, sinks_, level_, fvars>>
    /\ WorkerSide /\ HeldFrame

\* mutation of CollectPop: the queue's mutex is kept after try_pop
CollectPop_KeepsMutex(w) ==
    /\ ~aborted /\ wpc[w] = "try_pop"
    /\ IF queue_ # <<>>
       THEN /\ queue_' = Tail(queue_)
            /\ waitNF' \in NotifyOne(waitNF)
            /\ batch' = [batch EXCEPT ![w] = Append(@, Head(queue_))]
            /\ wpc' = [wpc EXCEPT ![w] = "collect"]
       ELSE /\ wpc' = [wpc EXCEPT ![w] = "process"]
            /\ UNCHANGED <<queue_, waitNF, batch>>
    /\ NoMutex
    /\ UNCHANGED <<sinkLog, sinks_, level_, fvars>>
    /\ WorkerSide /\ HeldFrame

\* try_pop under the queue's mutex, which it gives back: batch.push_back(msg),
\* or sleep_for(1ms) and break
CollectPop(w) ==
    /\ ~aborted /\ wpc[w] = "try_pop"
    /\ IF queue_ # <<>>
       THEN /\ queue_' = Tail(queue_)
            /\ waitNF' \in NotifyOne(waitNF)
            /\ batch' = [batch EXCEPT ![w] = Append(@, Head(queue_))]
            /\ wpc' = [wpc EXCEPT ![w] = "collect"]
       ELSE /\ wpc' = [wpc EXCEPT ![w] = "process"]
            /\ UNCHANGED <<queue_, waitNF, batch>>
    /\ WorkerRelease(w, QueueMutex)
    /\ UNCHANGED <<sinkLog, sinks_, level_, fvars>>
    /\ WorkerSide /\ HeldFrame

\* if (!batch.empty()) process_batch(batch): lock_guard lock(sinks_mutex_)
DispatchLock(w) ==
    /\ ~aborted /\ wpc[w] = "process"
    /\ IF batch[w] # <<>>
       THEN WorkerAcquire(w, SinksMutex) /\ wpc' = [wpc EXCEPT ![w] = "dispatch"]
       ELSE NoMutex /\ wpc' = [wpc EXCEPT ![w] = "flush"]
    /\ UNCHANGED <<queue_, waitNF, batch, sinkLog, sinks_, level_, fvars>>
    /\ WorkerSide /\ HeldFrame

\* process_batch: the loop over the batch, and the lock_guard released
DispatchRun(w) ==
    /\ ~aborted /\ wpc[w] = "dispatch"
    /\ sinkLog' = process_batch(sinkLog, batch[w])
    /\ batch' = [batch EXCEPT ![w] = <<>>]
    /\ wpc' = [wpc EXCEPT ![w] = "flush"]
    /\ WorkerRelease(w, SinksMutex)
    /\ UNCHANGED <<queue_, waitNF, sinks_, level_, fvars>>
    /\ WorkerSide /\ HeldFrame

\* if (config_.auto_flush && should_auto_flush()): last_flush_time_ is read
\* with no mutex held
FlushCheck(w) ==
    /\ ~aborted /\ wpc[w] = "flush"
    /\ wpc' = [wpc EXCEPT ![w] = IF auto_flush /\ should_auto_flush
                                 THEN "flush_lock" ELSE "loop"]
    /\ NoMutex
    /\ UNCHANGED <<queue_, waitNF, batch, sinkLog, sinks_, level_, fvars>>
    /\ WorkerSide /\ HeldFrame

\* flush(): std::lock_guard<std::mutex> lock(sinks_mutex_)
FlushLock(w) ==
    /\ ~aborted /\ wpc[w] = "flush_lock"
    /\ WorkerAcquire(w, SinksMutex)
    /\ wpc' = [wpc EXCEPT ![w] = "flushing"]
    /\ UNCHANGED <<queue_, waitNF, batch, sinkLog, sinks_, level_, fvars>>
    /\ WorkerSide /\ HeldFrame

\* flush(): the sinks flushed, last_flush_time_ written, the mutex released
FlushRun(w) ==
    /\ ~aborted /\ wpc[w] = "flushing"
    /\ FlushBody
    /\ wpc' = [wpc EXCEPT ![w] = "loop"]
    /\ WorkerRelease(w, SinksMutex)
    /\ UNCHANGED <<queue_, waitNF, batch, sinkLog, sinks_, level_>>
    /\ WorkerSide /\ HeldFrame

\* the final pass: queue_.try_pop(remaining_msg) takes the queue's mutex
DrainLock(w) ==
    /\ ~aborted /\ wpc[w] = "drain"
    /\ WorkerAcquire(w, QueueMutex)
    /\ wpc' = [wpc EXCEPT ![w] = "drain_pop"]
    /\ UNCHANGED <<queue_, waitNF, batch, sinkLog, sinks_, level_, fvars>>
    /\ WorkerSide /\ HeldFrame

\* the final pass: try_pop under the queue's mutex, which it gives back
DrainPop(w) ==
    /\ ~aborted /\ wpc[w] = "drain_pop"
    /\ IF queue_ # <<>>
       THEN /\ queue_' = Tail(queue_)
            /\ waitNF' \in NotifyOne(waitNF)
            /\ batch' = [batch EXCEPT ![w] = <<Head(queue_)>>]
            /\ wpc' = [wpc EXCEPT ![w] = "drain_msg"]
       ELSE /\ wpc' = [wpc EXCEPT ![w] = "done"]
            /\ UNCHANGED <<queue_, waitNF, batch>>
    /\ WorkerRelease(w, QueueMutex)
    /\ UNCHANGED <<sinkLog, sinks_, level_, fvars>>
    /\ WorkerSide /\ HeldFrame

\* the final pass: process_message takes sinks_mutex_
DrainMsgLock(w) ==
    /\ ~aborted /\ wpc[w] = "drain_msg"
    /\ WorkerAcquire(w, SinksMutex)
    /\ wpc' = [wpc EXCEPT ![w] = "drain_dispatch"]
    /\ UNCHANGED <<queue_, waitNF, batch, sinkLog, sinks_, level_, fvars>>
    /\ WorkerSide /\ HeldFrame

\* the final pass: process_message calls the sinks and releases sinks_mutex_
DrainMsgRun(w) ==
    /\ ~aborted /\ wpc[w] = "drain_dispatch"
    /\ sinkLog' = process_message(sinkLog, batch[w][1])
    /\ batch' = [batch EXCEPT ![w] = <<>>]
    /\ wpc' = [wpc EXCEPT ![w] = "drain"]
    /\ WorkerRelease(w, SinksMutex)
    /\ UNCHANGED <<queue_, waitNF, sinks_, level_, fvars>>
    /\ WorkerSide /\ HeldFrame

\* log: queue_.try_push takes the queue's mutex
LogLock(t) ==
    /\ ~aborted /\ pc[t] = "log_push"
    /\ ClientAcquire(t, QueueMutex)
    /\ pc' = [pc EXCEPT ![t] = "log_locked"]
    /\ UNCHANGED <<queue_, waitNE, waitNF, ret, pushed, nRejected, sinks_, level_, fvars>>
    /\ ClientSide /\ HeldFrame

\* log: try_push under the queue's mutex, which it gives back
LogStore(t) ==
    /\ ~aborted /\ pc[t] = "log_locked"
    /\ TryPushBody(t, <<t, nPush[t]>>)
    /\ nRejected' = IF ~shutdown_ /\ TryPushFull THEN nRejected + 1 ELSE nRejected
    /\ ClientRelease(t, QueueMutex)
    /\ UNCHANGED <<sinks_, level_, fvars>>
    /\ ClientSide /\ HeldFrame

\* get_queue_size / get_queue_capacity / queue_.empty(): the queue's mutex
SizeLock(t) ==
    /\ ~aborted /\ pc[t] = "idle"
    /\ ClientAcquire(t, QueueMutex)
    /\ pc' = [pc EXCEPT ![t] = "size_locked"]
    /\ UNCHANGED <<queue_, waitNE, waitNF, ret, pushed, nRejected, sinks_, level_, fvars>>
    /\ ClientSide /\ HeldFrame

\* queue_.size() returns and the mutex is given back
SizeReturn(t) ==
    /\ ~aborted /\ pc[t] = "size_locked"
    /\ ClientRelease(t, QueueMutex)
    /\ pc' = [pc EXCEPT ![t] = "idle"]
    /\ UNCHANGED <<queue_, waitNE, waitNF, ret, pushed, nRejected, sinks_, level_, fvars>>
    /\ ClientSide /\ HeldFrame

\* add_sink / remove_sink / clear_sinks / flush / set_level / get_level:
\* std::lock_guard<std::mutex> lock(sinks_mutex_)
SinksLock(t) ==
    /\ ~aborted /\ pc[t] = "idle"
    /\ ClientAcquire(t, SinksMutex)
    /\ pc' = [pc EXCEPT ![t] = "sinks_locked"]
    /\ UNCHANGED <<queue_, waitNE, waitNF, ret, pushed, nRejected, sinks_, level_, fvars>>
    /\ ClientSide /\ HeldFrame

\* what the call does under sinks_mutex_, and the mutex given back
SinksRun(t) ==
    /\ ~aborted /\ pc[t] = "sinks_locked"
    /\ \/ \E s \in Sinks :
            /\ Len(sinks_) + 1 \in MutexSinkCounts
            /\ sinks_' = Append(sinks_, s)
            /\ UNCHANGED <<level_, fvars>>
       \/ \E s \in Sinks :
            /\ sinks_' = EraseFirst(sinks_, s)
            /\ UNCHANGED <<level_, fvars>>
       \/ /\ sinks_' = <<>>
          /\ UNCHANGED <<level_, fvars>>
       \/ /\ flushLog = <<>>
          /\ FlushBody
          /\ UNCHANGED <<sinks_, level_>>
       \/ \E lvl \in SetLevels :
            /\ level_' = [s \in Sinks |-> IF s \in {sinks_[i] : i \in 1..Len(sinks_)}
                                          THEN lvl ELSE level_[s]]
            /\ UNCHANGED <<sinks_, fvars>>
       \/ UNCHANGED <<sinks_, level_, fvars>>
    /\ ClientRelease(t, SinksMutex)
    /\ pc' = [pc EXCEPT ![t] = "idle"]
    /\ UNCHANGED <<queue_, waitNE, waitNF, ret, pushed, nRejected>>
    /\ ClientSide /\ HeldFrame

\* ============================================ start() and stop() together
\* what start() and stop() leave alone
LifeFrame == UNCHANGED <<qvars, tvars, cfgvars, dvars, wfcvars, mvars, lvars,
                         sinks_mutex_, lastBy, wheld, cheld, zvars, sinks_,
                         level_, dropped_count_, cpc, aborted, sinkLog,
                         nRejected, fvars>>

\* the worker threads that run: spawned and not yet returned
LiveWorkers == {w \in Workers : wpc[w] \notin {"none", "done"}}

\* start(): if (running_) return;
StartCheck(c) ==
    /\ spc[c] = "idle" /\ nStarts < MaxStarts
    /\ nStarts' = nStarts + 1
    /\ spc' = [spc EXCEPT ![c] = IF running_ THEN "idle" ELSE "start_set"]
    /\ UNCHANGED <<running_, stop_requested_, workers_, wpc, batch, joiners>>
    /\ LifeFrame

\* start(): running_ = true; stop_requested_ = false;
StartSet(c) ==
    /\ spc[c] = "start_set"
    /\ running_' = TRUE
    /\ stop_requested_' = FALSE
    /\ spc' = [spc EXCEPT ![c] = "spawn"]
    /\ UNCHANGED <<workers_, wpc, batch, nStarts, joiners>>
    /\ LifeFrame

\* start(): the loop of workers_.emplace_back, worker_threads times
StartSpawn(c) ==
    /\ spc[c] = "spawn"
    /\ workers_' = workers_ \cup Spawned
    /\ wpc' = [w \in Workers |-> IF w \in Spawned THEN "loop" ELSE wpc[w]]
    /\ batch' = [w \in Workers |-> IF w \in Spawned THEN <<>> ELSE batch[w]]
    /\ spc' = [spc EXCEPT ![c] = "idle"]
    /\ UNCHANGED <<running_, stop_requested_, nStarts, joiners>>
    /\ LifeFrame

\* stop(true): if (!running_) return; stop_requested_ = true;
StopCheck(c) ==
    /\ spc[c] = "idle"
    /\ running_
    /\ stop_requested_' = TRUE
    /\ spc' = [spc EXCEPT ![c] = "join"]
    /\ UNCHANGED <<running_, workers_, wpc, batch, nStarts, joiners>>
    /\ LifeFrame

\* stop(true): for (auto& worker : workers_) if (worker.joinable())
\* worker.join(); the calls are made, each on a thread not yet joined
StopJoin(c) ==
    /\ spc[c] = "join"
    /\ joiners' = [w \in Workers |-> IF w \in workers_ THEN joiners[w] \cup {c}
                                     ELSE joiners[w]]
    /\ spc' = [spc EXCEPT ![c] = "joining"]
    /\ UNCHANGED <<running_, stop_requested_, workers_, wpc, batch, nStarts>>
    /\ LifeFrame

\* stop(true): every join() has returned; workers_.clear(); running_ = false
StopClear(c) ==
    /\ spc[c] = "joining"
    /\ \A w \in Workers : c \in joiners[w] => wpc[w] \in {"done", "none"}
    /\ workers_' = {}
    /\ wpc' = [w \in Workers |-> IF w \in workers_ /\ wpc[w] = "done"
                                 THEN "none" ELSE wpc[w]]
    /\ joiners' = [w \in Workers |-> joiners[w] \ {c}]
    /\ running_' = FALSE
    /\ spc' = [spc EXCEPT ![c] = "idle"]
    /\ UNCHANGED <<stop_requested_, batch, nStarts>>
    /\ LifeFrame

\* ================================================== wait_for_completion
\* what wait_for_completion leaves alone
WaitFrame == UNCHANGED <<qvars, tvars, cfgvars, dvars, mvars, lvars, sinks_mutex_,
                         xvars, evars>>

\* bool is_running() const
is_running == running_

\* wait_for_completion(timeout) is entered: start_time = now()
WaitCall(timeout) ==
    /\ wfc_pc = "idle" /\ now + timeout <= MaxTime
    /\ wfc_pc' = "is_running"
    /\ wfc_timeout' = timeout
    /\ wfc_start' = now
    /\ wfc_ret' = "none"
    /\ UNCHANGED <<wfc_wake, wfc_end>>
    /\ WaitFrame

\* the call returns r
WaitReturn(r) ==
    /\ wfc_pc' = "idle"
    /\ wfc_ret' = r
    /\ wfc_end' = now
    /\ UNCHANGED <<wfc_timeout, wfc_start, wfc_wake>>

\* the call goes on to statement p
WaitGoto(p) ==
    /\ wfc_pc' = p
    /\ UNCHANGED <<wfc_timeout, wfc_start, wfc_wake, wfc_end, wfc_ret>>

\* while (is_running() && ...): the left operand; false ends the loop
WaitIsRunning ==
    /\ wfc_pc = "is_running"
    /\ IF is_running THEN WaitGoto("empty") ELSE WaitReturn("true")
    /\ WaitFrame

\* while (... && !queue_.empty()): the right operand, under the queue's lock
WaitQueueEmpty ==
    /\ wfc_pc = "empty"
    /\ IF queue_ # <<>> THEN WaitGoto("elapsed") ELSE WaitReturn("true")
    /\ WaitFrame

\* mutation of WaitElapsed: the time-out is reported as completion
WaitElapsed_ReturnsTrue ==
    /\ wfc_pc = "elapsed"
    /\ IF now - wfc_start >= wfc_timeout
       THEN WaitReturn("true")
       ELSE /\ wfc_pc' = "sleep"
            /\ wfc_wake' = now + PollInterval
            /\ UNCHANGED <<wfc_timeout, wfc_start, wfc_end, wfc_ret>>
    /\ WaitFrame

\* if (elapsed >= timeout) return false; sleep_for(milliseconds(1))
WaitElapsed ==
    /\ wfc_pc = "elapsed"
    /\ IF now - wfc_start >= wfc_timeout
       THEN WaitReturn("false")
       ELSE /\ wfc_pc' = "sleep"
            /\ wfc_wake' = now + PollInterval
            /\ UNCHANGED <<wfc_timeout, wfc_start, wfc_end, wfc_ret>>
    /\ WaitFrame

\* the sleep is over: back to the loop condition
WaitWake ==
    /\ wfc_pc = "sleep" /\ now >= wfc_wake
    /\ WaitGoto("is_running")
    /\ WaitFrame

\* one step of the thread inside wait_for_completion
WaitStep == WaitIsRunning \/ WaitQueueEmpty \/ WaitElapsed \/ WaitWake

\* time passes for the polling thread: its statements take no time and
\* its sleep ends when the millisecond is over
WaitTick ==
    /\ wfc_pc = "idle" \/ (wfc_pc = "sleep" /\ now < wfc_wake)
    /\ Tick

\* ========================================================= sinks_mutex_
\* what a step inside process_batch leaves alone
BatchFrame == UNCHANGED <<qvars, tvars, cfgvars, dvars, wfcvars, mvars, lvars,
                          wheld, cheld, yvars, zvars,
                          running_, stop_requested_, workers_, sinks_, level_,
                          dropped_count_, cpc, aborted, nStarts, nRejected, fvars>>

\* process_batch: std::lock_guard<std::mutex> lock(sinks_mutex_)
BatchLock(w) ==
    /\ ~aborted /\ wpc[w] = "process" /\ batch[w] # <<>>
    /\ ~sinks_mutex_
    /\ sinks_mutex_' = TRUE
    /\ wpc' = [wpc EXCEPT ![w] = "dispatch"]
    /\ UNCHANGED <<batch, sinkLog, lastBy>>
    /\ BatchFrame

\* mutation of BatchStep: the batch is walked from its last record
BatchStep_Backwards(w) ==
    /\ ~aborted /\ wpc[w] = "dispatch" /\ batch[w] # <<>>
    /\ sinkLog' = process_message(sinkLog, batch[w][Len(batch[w])])
    /\ lastBy' = [lastBy EXCEPT ![w] = batch[w][Len(batch[w])][2]]
    /\ batch' = [batch EXCEPT ![w] = SubSeq(@, 1, Len(@) - 1)]
    /\ UNCHANGED <<wpc, sinks_mutex_>>
    /\ BatchFrame

\* process_batch: one turn of for (const auto& msg : batch), all the sinks;
\* batch[w] is what the loop has still to visit
BatchStep(w) ==
    /\ ~aborted /\ wpc[w] = "dispatch" /\ batch[w] # <<>>
    /\ sinkLog' = process_message(sinkLog, Head(batch[w]))
    /\ lastBy' = [lastBy EXCEPT ![w] = Head(batch[w])[2]]
    /\ batch' = [batch EXCEPT ![w] = Tail(@)]
    /\ UNCHANGED <<wpc, sinks_mutex_>>
    /\ BatchFrame

\* process_batch returns: the lock_guard releases sinks_mutex_
BatchUnlock(w) ==
    /\ ~aborted /\ wpc[w] = "dispatch" /\ batch[w] = <<>>
    /\ sinks_mutex_' = FALSE
    /\ wpc' = [wpc EXCEPT ![w] = "flush"]
    /\ UNCHANGED <<batch, sinkLog, lastBy>>
    /\ BatchFrame

\* the final pass, process_message(remaining_msg): the lock, the sinks, and
\* the lock released
LockedDrainMsg(w) ==
    /\ ~aborted /\ wpc[w] = "drain_msg"
    /\ ~sinks_mutex_
    /\ sinkLog' = process_message(sinkLog, batch[w][1])
    /\ lastBy' = [lastBy EXCEPT ![w] = batch[w][1][2]]
    /\ batch' = [batch EXCEPT ![w] = <<>>]
    /\ wpc' = [wpc EXCEPT ![w] = "drain"]
    /\ UNCHANGED sinks_mutex_
    /\ BatchFrame

\* if (!batch.empty()) is false
BatchSkip(w) == batch[w] = <<>> /\ WorkerProcess(w)

\* the worker's flush(), which takes sinks_mutex_ when it is due
LockedWorkerFlush(w) ==
    /\ (auto_flush /\ should_auto_flush) => ~sinks_mutex_
    /\ WorkerFlush(w)

\* add_sink, remove_sink, clear_sinks, flush and set_level called by a
\* client thread: each runs under std::lock_guard lock(sinks_mutex_)
LockedAddSink(s) == ~sinks_mutex_ /\ AddSink(s)
\* mutation of LockedRemoveSink: sinks_mutex_ is not taken
LockedRemoveSink_NoLock(s) == RemoveSink(s)

LockedRemoveSink(s) == ~sinks_mutex_ /\ RemoveSink(s)
LockedClearSinks == ~sinks_mutex_ /\ ClearSinks
LockedFlush == ~sinks_mutex_ /\ Flush

\* mutation of LockedSetLevel: the lock is not taken
LockedSetLevel_NoLock(lvl) == SetLevel(lvl)

LockedSetLevel(lvl) == ~sinks_mutex_ /\ SetLevel(lvl)

\* ============================================================ LogManager
\* what the operations of the manager on its own members leave alone
ManagerFrame == UNCHANGED <<qvars, tvars, cfgvars, dvars, wfcvars, lvars,
                            sinks_mutex_, xvars, evars>>

\* LogManager::mutex_ is free: no thread is inside initialize
ManagerUnlocked == initialized_ \/ ~async_logger_

\* void initialize(config): if (initialized_) return; config_ = config; with
\* config.async the engine is built from the configuration, and started in
\* the step after this one
ManagerInitialize(async) ==
    /\ ManagerUnlocked
    /\ IF initialized_
       THEN UNCHANGED mvars
       ELSE /\ manager_level' = INFO
            /\ async_logger_' = async
            /\ initialized_' = ~async
            /\ UNCHANGED manager_sinks_
    /\ ManagerFrame

\* initialize: async_logger_->start()
ManagerStart ==
    /\ async_logger_ /\ ~initialized_ /\ ~running_
    /\ Start

\* initialize: initialized_ = true; the lock is released
ManagerInitialized ==
    /\ async_logger_ /\ ~initialized_ /\ running_
    /\ initialized_' = TRUE
    /\ UNCHANGED <<async_logger_, manager_sinks_, manager_level>>
    /\ ManagerFrame

\* void LogManager::add_sink(sink): sinks_.push_back(sink), under mutex_
ManagerAddSink(s) ==
    /\ ManagerUnlocked /\ Len(manager_sinks_) < MaxSinks
    /\ manager_sinks_' = Append(manager_sinks_, s)
    /\ UNCHANGED <<async_logger_, initialized_, manager_level>>
    /\ ManagerFrame

\* void LogManager::set_level(level): config_.level = level
ManagerSetLevel(lvl) ==
    /\ ManagerUnlocked
    /\ manager_level' = lvl
    /\ UNCHANGED <<async_logger_, manager_sinks_, initialized_>>
    /\ ManagerFrame

\* void LogManager::log(level, message, ...): nothing below config_.level;
\* with an engine the record goes to async_logger_->log, without one to the
\* manager's own sinks, one after the other
ManagerLog(t) ==
    /\ ManagerUnlocked
    /\ ~aborted /\ t \in Producers /\ pc[t] = "idle" /\ CallsIssued < pushBudget
    /\ LET msg == <<t, nPush[t] + 1>>
       IN  IF ~LevelGE(LevelOf(msg), manager_level)
           THEN /\ nPush' = [nPush EXCEPT ![t] = @ + 1]
                /\ UNCHANGED <<qvars, pc, arg, ret, got, pushed, nCleared,
                               qAtShutdown, pushBudget, ovars, evars>>
           ELSE IF async_logger_
           THEN LogCall(t)
           ELSE /\ nPush' = [nPush EXCEPT ![t] = @ + 1]
                /\ sinkLog' = FanOut(sinkLog, manager_sinks_, msg)
                /\ UNCHANGED <<qvars, pc, arg, ret, got, pushed, nCleared,
                               qAtShutdown, pushBudget, ovars, running_,
                               stop_requested_, workers_, sinks_, level_,
                               dropped_count_, wpc, batch, cpc, aborted,
                               nStarts, nRejected, fvars>>

\* ================================== CompositeLogSink and FilterLogSink
\* what the operations of a composite or a filter sink leave alone
DecoratorFrame == UNCHANGED <<qvars, tvars, cfgvars, wfcvars, mvars, lvars,
                              sinks_mutex_, xvars, running_, stop_requested_,
                              workers_, sinks_, dropped_count_, wpc, batch,
                              cpc, aborted, nStarts, sinkLog, nRejected, fvars>>

\* LogSink::set_level called on a child itself: level_ = level
ChildSetLevel(c, lvl) ==
    /\ level_' = [level_ EXCEPT ![c] = lvl]
    /\ UNCHANGED dvars
    /\ DecoratorFrame

\* CompositeLogSink::add_sink: sinks_.push_back(sink)
CompositeAddSink(c) ==
    /\ Len(composite_sinks_) + 1 \in ChildCounts
    /\ composite_sinks_' = Append(composite_sinks_, c)
    /\ UNCHANGED <<composite_level_, filter_, filter_level_, childLog, nDispatched, level_>>
    /\ DecoratorFrame

\* CompositeLogSink::remove_sink: std::find, then erase if found
CompositeRemoveSink(c) ==
    /\ composite_sinks_' = EraseFirst(composite_sinks_, c)
    /\ UNCHANGED <<composite_level_, filter_, filter_level_, childLog, nDispatched, level_>>
    /\ DecoratorFrame

\* CompositeLogSink::clear_sinks
CompositeClearSinks ==
    /\ composite_sinks_' = <<>>
    /\ UNCHANGED <<composite_level_, filter_, filter_level_, childLog, nDispatched, level_>>
    /\ DecoratorFrame

\* the loop of CompositeLogSink::log over the children ss, for a record of
\* level lvl: if (sink && sink->should_log(level)) sink->log(message)
RECURSIVE CompositeFanOut(_, _, _)
CompositeFanOut(cl, ss, lvl) ==
    IF ss = <<>> THEN cl
    ELSE CompositeFanOut(IF Head(ss) # NullSink /\ should_log(Head(ss), lvl)
                         THEN Append(cl, <<"log", Head(ss), lvl>>)
                         ELSE cl,
                         Tail(ss), lvl)

\* mutation of CompositeLog: the composite's own threshold is the one tested
CompositeLog_OwnLevel(lvl) ==
    /\ nDispatched < MaxDispatch
    /\ nDispatched' = nDispatched + 1
    /\ LET to == SelectSeq(composite_sinks_,
                            LAMBDA c : c # NullSink /\ lvl >= composite_level_)
       IN  childLog' = childLog \o [i \in 1..Len(to) |-> <<"log", to[i], lvl>>]
    /\ UNCHANGED <<composite_sinks_, composite_level_, filter_, filter_level_, level_>>
    /\ DecoratorFrame

\* CompositeLogSink::log(message)
CompositeLog(lvl) ==
    /\ nDispatched < MaxDispatch
    /\ nDispatched' = nDispatched + 1
    /\ childLog' = CompositeFanOut(childLog, composite_sinks_, lvl)
    /\ UNCHANGED <<composite_sinks_, composite_level_, filter_, filter_level_, level_>>
    /\ DecoratorFrame

\* the loop of CompositeLogSink::flush: if (sink) sink->flush()
RECURSIVE CompositeFlushAll(_, _)
CompositeFlushAll(cl, ss) ==
    IF ss = <<>> THEN cl
    ELSE CompositeFlushAll(IF Head(ss) # NullSink
                           THEN Append(cl, <<"flush", Head(ss)>>)
                           ELSE cl,
                           Tail(ss))

\* CompositeLogSink::flush
CompositeFlush ==
    /\ nDispatched < MaxDispatch
    /\ nDispatched' = nDispatched + 1
    /\ childLog' = CompositeFlushAll(childLog, composite_sinks_)
    /\ UNCHANGED <<composite_sinks_, composite_level_, filter_, filter_level_, level_>>
    /\ DecoratorFrame

\* CompositeLogSink::set_level: LogSink::set_level(level), then every child
CompositeSetLevel(lvl) ==
    /\ composite_level_' = lvl
    /\ level_' = [c \in Sinks |-> IF c \in {composite_sinks_[i] : i \in 1..Len(composite_sinks_)}
                                  THEN lvl ELSE level_[c]]
    /\ UNCHANGED <<composite_sinks_, filter_, filter_level_, childLog, nDispatched>>
    /\ DecoratorFrame

\* FilterLogSink::set_filter: filter_ = filter
FilterSetFilter(f) ==
    /\ filter_' = f
    /\ UNCHANGED <<composite_sinks_, composite_level_, filter_level_, childLog, nDispatched, level_>>
    /\ DecoratorFrame

\* mutation of FilterLog: an empty filter lets every record through
FilterLog_UnsetPasses(lvl) ==
    /\ nDispatched < MaxDispatch
    /\ nDispatched' = nDispatched + 1
    /\ childLog' = IF filter_ = NoFilter \/ lvl \in filter_[1]
                   THEN Append(childLog, <<"log", FilterChild, lvl>>)
                   ELSE childLog
    /\ UNCHANGED <<composite_sinks_, composite_level_, filter_, filter_level_, level_>>
    /\ DecoratorFrame

\* FilterLogSink::log: if (filter_ && filter_(message)) sink_->log(message)
FilterLog(lvl) ==
    /\ nDispatched < MaxDispatch
    /\ nDispatched' = nDispatched + 1
    /\ childLog' = IF filter_ # NoFilter /\ lvl \in filter_[1]
                   THEN Append(childLog, <<"log", FilterChild, lvl>>)
                   ELSE childLog
    /\ UNCHANGED <<composite_sinks_, composite_level_, filter_, filter_level_, level_>>
    /\ DecoratorFrame

\* FilterLogSink::flush: sink_->flush()
FilterFlush ==
    /\ nDispatched < MaxDispatch
    /\ nDispatched' = nDispatched + 1
    /\ childLog' = Append(childLog, <<"flush", FilterChild>>)
    /\ UNCHANGED <<composite_sinks_, composite_level_, filter_, filter_level_, level_>>
    /\ DecoratorFrame

\* FilterLogSink::set_level: LogSink::set_level(level); sink_->set_level(level)
FilterSetLevel(lvl) ==
    /\ filter_level_' = lvl
    /\ level_' = [level_ EXCEPT ![FilterChild] = lvl]
    /\ UNCHANGED <<composite_sinks_, composite_level_, filter_, childLog, nDispatched>>
    /\ DecoratorFrame

\* FilterLogSink::get_level: sink_->get_level()
FilterGetLevel == level_[FilterChild]

\* FilterLogSink::should_log: sink_->should_log(level)
FilterShouldLog(lvl) == should_log(FilterChild, lvl)

\* --------------------------------------------------------- specification
InitQueue ==
    /\ queue_ = <<>>
    /\ shutdown_ = FALSE
    /\ waitNE = {}
    /\ waitNF = {}


\* ===================================================== LogManager::mutex_
\* what the LogManager calls below leave alone
MutexFrame == UNCHANGED <<qvars, tvars, cfgvars, dvars, wfcvars, lvars,
                          sinks_mutex_, lastBy, wheld, cheld, yvars,
                          running_, stop_requested_, workers_, sinks_, level_,
                          dropped_count_, wpc, batch, cpc, aborted, nStarts,
                          sinkLog, nRejected, last_flush_time_, now,
                          manager_sinks_, initialized_, manager_level>>

\* std::lock_guard<std::mutex> lock(mutex_) as the first statement of call
\* op, by a thread that is in no LogManager call
ManagerLock(c, op) ==
    /\ mpc[c] = "idle"
    /\ manager_mutex_ = NoOwner
    /\ manager_mutex_' = c
    /\ mpc' = [mpc EXCEPT ![c] = op]
    /\ UNCHANGED <<manager_shutdown_, named_loggers_, async_logger_, flushLog>>
    /\ MutexFrame

\* the call returns: its lock_guard releases mutex_
ManagerReturn(c) ==
    /\ manager_mutex_' = NoOwner
    /\ mpc' = [mpc EXCEPT ![c] = "idle"]

\* void shutdown(), void flush(), get_logger(name), create_logger(name)
ShutdownLock(c) == ManagerLock(c, "shutdown")
ManagerFlushLock(c) ==
    /\ Len(flushLog) + Len(manager_sinks_) <= MaxFlushLog
    /\ ManagerLock(c, "flush")
GetLoggerLock(c) == ManagerLock(c, "get_logger")
CreateLoggerLock(c) == ManagerLock(c, "create_logger")

\* shutdown(): if (!initialized_ || shutdown_) return; the engine, if there
\* is one, stopped and reset; then flush() is called with mutex_ held
ShutdownBody(c) ==
    /\ mpc[c] = "shutdown"
    /\ IF ~initialized_ \/ manager_shutdown_
       THEN /\ ManagerReturn(c)
            /\ UNCHANGED async_logger_
       ELSE /\ async_logger_' = FALSE
            /\ mpc' = [mpc EXCEPT ![c] = "shutdown_flush"]
            /\ UNCHANGED manager_mutex_
    /\ UNCHANGED <<manager_shutdown_, named_loggers_, flushLog>>
    /\ MutexFrame

\* flush(), called from outside: sink->flush() for every sink of the manager
\* (async_logger_->flush() first, with an engine)
ManagerFlushBody(c) ==
    /\ mpc[c] = "flush"
    /\ flushLog' = flushLog \o (IF async_logger_ THEN sinks_ ELSE <<>>) \o manager_sinks_
    /\ ManagerReturn(c)
    /\ UNCHANGED <<manager_shutdown_, named_loggers_, async_logger_>>
    /\ MutexFrame

\* get_logger(name): the logger found is returned; for a name not found
\* create_logger(name) is called with mutex_ held
GetLoggerBody(c) ==
    /\ mpc[c] = "get_logger"
    /\ \E name \in LoggerNames :
         IF name \in named_loggers_
         THEN ManagerReturn(c)
         ELSE mpc' = [mpc EXCEPT ![c] = "get_create"] /\ UNCHANGED manager_mutex_
    /\ UNCHANGED <<manager_shutdown_, named_loggers_, async_logger_, flushLog>>
    /\ MutexFrame

\* create_logger(name), called from outside: named_loggers_[name] = logger
CreateLoggerBody(c) ==
    /\ mpc[c] = "create_logger"
    /\ \E name \in LoggerNames : named_loggers_' = named_loggers_ \cup {name}
    /\ ManagerReturn(c)
    /\ UNCHANGED <<manager_shutdown_, async_logger_, flushLog>>
    /\ MutexFrame

\* std::lock_guard<std::mutex> lock(mutex_) in flush() called by shutdown(),
\* or in create_logger() called by get_logger(): the thread owns mutex_
\* already, which std::mutex::lock leaves undefined.  The thread blocks for
\* ever, or lock() throws std::system_error and the outer call is left with
\* mutex_ released and nothing else done
ManagerRelock(c) ==
    /\ mpc[c] \in {"shutdown_flush", "get_create"}
    /\ manager_mutex_ = c
    /\ \/ mpc' = [mpc EXCEPT ![c] = "deadlock"] /\ UNCHANGED manager_mutex_
       \/ ManagerReturn(c)
    /\ UNCHANGED <<manager_shutdown_, named_loggers_, async_logger_, flushLog>>
    /\ MutexFrame

InitThreads ==
    /\ pc = [t \in Threads |-> "idle"]
    /\ arg = [t \in Consumers |-> 0]
    /\ ret = Ret(FALSE, 0)
    /\ got = [t \in Consumers |-> <<>>]
    /\ nPush = [t \in Producers |-> 0]
    /\ pushed = <<>>
    /\ nCleared = 0
    /\ qAtShutdown = <<>>

\* AsyncLogger(config): running_(false), stop_requested_(false)
InitMembers ==
    /\ running_ = FALSE
    /\ stop_requested_ = FALSE
    /\ workers_ = {}
    /\ level_ = [s \in Sinks |-> IF s = "s1" THEN TRACE ELSE WARN]
    /\ dropped_count_ = 0
    /\ wpc = [w \in Workers |-> "none"]
    /\ batch = [w \in Workers |-> <<>>]
    /\ cpc = "idle"
    /\ aborted = FALSE
    /\ nStarts = 0
    /\ sinkLog = <<>>
    /\ nRejected = 0
    /\ last_flush_time_ = 0
    /\ now = 0
    /\ flushLog = <<>>

\* a CompositeLogSink with no child yet and a FilterLogSink around
\* FilterChild with an empty filter; LogLevel level_ = LogLevel::INFO
InitDecorators ==
    /\ composite_sinks_ = <<>>
    /\ composite_level_ = INFO
    /\ filter_ = NoFilter
    /\ filter_level_ = INFO
    /\ childLog = <<>>
    /\ nDispatched = 0

\* no thread is inside wait_for_completion
InitWait ==
    /\ wfc_pc = "idle"
    /\ wfc_timeout = 0
    /\ wfc_start = 0
    /\ wfc_wake = 0
    /\ wfc_end = 0
    /\ wfc_ret = "none"

\* LogManager before initialize: no engine, no sink; LogConfig::level is INFO
InitManager ==
    /\ async_logger_ = FALSE
    /\ manager_sinks_ = <<>>
    /\ initialized_ = FALSE
    /\ manager_level = INFO

\* no comparison under way
InitCompare ==
    /\ lhs = TRACE
    /\ rhs = TRACE
    /\ cmp = {}

\* no worker has dispatched a record yet
InitSteps ==
    /\ lastBy = [w \in Workers |-> 0]
    /\ wheld = [w \in Workers |-> {}]
    /\ cheld = [t \in Producers |-> {}]
    /\ spc = [c \in Callers |-> "idle"]
    /\ joiners = [w \in Workers |-> {}]
    /\ manager_mutex_ = NoOwner
    /\ mpc = [c \in Callers |-> "idle"]
    /\ manager_shutdown_ = FALSE
    /\ named_loggers_ = {}

\* the objects next to the engine, as constructed; sinks_mutex_ is free
InitObjects ==
    /\ InitDecorators /\ InitWait /\ InitManager /\ InitCompare
    /\ sinks_mutex_ = FALSE
    /\ InitSteps

\* the engine after add_sink(s1); add_sink(s2)
InitEngine == InitMembers /\ InitObjects /\ sinks_ = <<"s1", "s2">>

\* auto_flush = true is the default; flush_interval_ms in clock ticks
InitFlushConfig ==
    /\ auto_flush = TRUE
    /\ flush_interval_ms \in FlushIntervals

\* the engine's configuration: queue_size is max_size_
InitConfig ==
    /\ batch_size \in 1..MaxBatchSize
    /\ worker_threads \in Workers
    /\ InitFlushConfig

\* the engine: AsyncLogger(config), not started
Init ==
    /\ InitQueue /\ InitThreads /\ InitConfig /\ InitEngine
    /\ max_size_ \in 0..MaxCapacity
    /\ pushBudget = MaxPushes

\* a queue on its own, used by client threads
QueueInit ==
    /\ InitQueue /\ InitThreads /\ InitEngine
    /\ max_size_ \in 0..MaxCapacity
    /\ pushBudget = MaxPushes
    /\ batch_size = 1
    /\ worker_threads = 1
    /\ InitFlushConfig

\* a bounded queue on its own, for the specification with fairness
FairQueueInit ==
    /\ InitQueue /\ InitThreads /\ InitEngine
    /\ max_size_ \in LiveCapacities
    /\ pushBudget = MaxLivePushes
    /\ batch_size = 1
    /\ worker_threads = 1
    /\ InitFlushConfig

QueueNext ==
    \/ \E t \in Threads : Push(t)
    \/ \E t \in Threads : PushWake(t)
    \/ \E t \in Threads : TryPush(t)
    \/ \E t \in Threads : Pop(t)
    \/ \E t \in Threads : PopWake(t)
    \/ \E t \in Threads : TryPop(t)
    \/ \E t \in Threads : TimedPop(t)
    \/ \E t \in Threads : TimedPopWake(t)
    \/ \E t \in Threads : TimedPopTimeout(t)
    \/ \E t \in Threads : PopBatch(t)
    \/ \E t \in Threads : PopBatchWake(t)
    \/ \E t \in Threads : TryPopBatch(t)
    \/ \E t \in Threads : SpuriousWake(t)
    \/ Clear
    \/ Shutdown

QueueSpec == QueueInit /\ [][QueueNext]_vars

\* a thread that was notified is runnable and is eventually scheduled;
\* nothing is assumed about spurious wake-ups, time-outs or new calls
Wake(t) == PushWake(t) \/ PopWake(t) \/ TimedPopWake(t) \/ PopBatchWake(t)

QueueFairness == \A t \in Threads : WF_vars(Wake(t))

\* the calls that can leave a thread waiting, with clear and shutdown; the
\* calls that never wait are left to QueueSpec
FairQueueNext ==
    \/ \E t \in Threads : Push(t)
    \/ \E t \in Threads : PushWake(t)
    \/ \E t \in Threads : Pop(t)
    \/ \E t \in Threads : PopWake(t)
    \/ \E t \in Threads : TimedPop(t)
    \/ \E t \in Threads : TimedPopWake(t)
    \/ \E t \in Threads : TimedPopTimeout(t)
    \/ \E t \in Threads : PopBatch(t)
    \/ \E t \in Threads : PopBatchWake(t)
    \/ \E t \in Threads : SpuriousWake(t)
    \/ Clear
    \/ Shutdown

FairQueueSpec == FairQueueInit /\ [][FairQueueNext]_vars /\ QueueFairness

\* the blocking operations alone, on a bounded queue that is never shut down
BlockingInit ==
    /\ InitQueue /\ InitThreads /\ InitEngine
    /\ max_size_ \in LiveCapacities
    /\ pushBudget = MaxBlockingPushes
    /\ batch_size = 1
    /\ worker_threads = 1
    /\ InitFlushConfig

BlockingNext ==
    \/ \E t \in Threads : Push(t)
    \/ \E t \in Threads : PushWake(t)
    \/ \E t \in Threads : Pop(t)
    \/ \E t \in Threads : PopWake(t)
    \/ \E t \in Threads : PopBatch(t)
    \/ \E t \in Threads : PopBatchWake(t)
    \/ \E t \in Threads : SpuriousWake(t)

BlockingSpec == BlockingInit /\ [][BlockingNext]_vars /\ QueueFairness

Next ==
    \/ Start
    \/ StopCall
    \/ StopReturn
    \/ \E t \in Producers : LogCall(t)
    \/ \E t \in Producers : LogPush(t)
    \/ \E w \in Workers : WorkerLoop(w)
    \/ \E w \in Workers : WorkerCollect(w)
    \/ \E w \in Workers : WorkerProcess(w)
    \/ \E w \in Workers : WorkerFlush(w)
    \/ \E w \in Workers : WorkerDrain(w)
    \/ \E w \in Workers : WorkerDrainMsg(w)
    \/ \E w \in Workers : \E k \in 1..Len(batch[w]) : \E i \in 1..Len(sinks_) :
         SinkThrows(w, k, i)

Spec == Init /\ [][Next]_vars

\* an engine that is started and never stopped, with sinks that return
RunNext ==
    \/ Start
    \/ \E t \in Producers : LogCall(t)
    \/ \E t \in Producers : LogPush(t)
    \/ \E w \in Workers : WorkerLoop(w)
    \/ \E w \in Workers : WorkerCollect(w)
    \/ \E w \in Workers : WorkerProcess(w)
    \/ \E w \in Workers : WorkerFlush(w)

\* one step of a worker's loop
WorkerStep(w) ==
    WorkerLoop(w) \/ WorkerCollect(w) \/ WorkerProcess(w) \/ WorkerFlush(w)

\* a worker thread is always runnable (its sleep_for returns) and is
\* eventually scheduled; nothing is assumed about the callers
RunFairness == \A w \in Workers : WF_vars(WorkerStep(w))

RunSpec == Init /\ [][RunNext]_vars /\ RunFairness

\* an engine with one or two workers and an unbounded queue, started once
\* and stopped while threads log, with sinks that return
StopInit ==
    /\ InitQueue /\ InitThreads /\ InitEngine
    /\ batch_size = MaxBatchSize
    /\ worker_threads \in Workers
    /\ InitFlushConfig
    /\ max_size_ = 0
    /\ pushBudget = MaxStopLogs

StopNext ==
    \/ nStarts = 0 /\ Start
    \/ StopCall
    \/ StopReturn
    \/ \E t \in Producers : LogCall(t)
    \/ \E t \in Producers : LogPush(t)
    \/ \E w \in Workers : WorkerLoop(w)
    \/ \E w \in Workers : WorkerCollect(w)
    \/ \E w \in Workers : WorkerProcess(w)
    \/ \E w \in Workers : WorkerFlush(w)
    \/ \E w \in Workers : WorkerDrain(w)
    \/ \E w \in Workers : WorkerDrainMsg(w)

\* one step of a worker thread, its final pass included
WorkerRun(w) ==
    \/ WorkerStep(w)
    \/ WorkerDrain(w)
    \/ WorkerDrainMsg(w)

\* a worker thread is eventually scheduled, and so is the thread inside
\* stop() once every join() can return; nothing is assumed about the
\* threads that log
StopFairness ==
    /\ \A w \in Workers : WF_vars(WorkerRun(w))
    /\ WF_vars(StopReturn)

StopSpec == StopInit /\ [][StopNext]_vars /\ StopFairness

\* the engine as constructed, with no sink registered yet, an unbounded
\* queue, one worker and one thread that logs; the sinks come with the
\* thresholds TRACE and WARN
SinkInit ==
    /\ InitQueue /\ InitThreads /\ InitMembers /\ InitObjects
    /\ sinks_ = <<>>
    /\ batch_size = MaxBatchSize
    /\ worker_threads = 1
    /\ InitFlushConfig
    /\ max_size_ = 0
    /\ pushBudget = MaxSinkLogs

SinkNext ==
    \/ Start
    \/ StopCall
    \/ StopReturn
    \/ LogCall("p1")
    \/ LogPush("p1")
    \/ \E w \in Workers : WorkerLoop(w)
    \/ \E w \in Workers : WorkerCollect(w)
    \/ \E w \in Workers : WorkerProcess(w)
    \/ \E w \in Workers : WorkerFlush(w)
    \/ \E w \in Workers : WorkerDrain(w)
    \/ \E w \in Workers : WorkerDrainMsg(w)
    \/ \E w \in Workers : \E k \in 1..Len(batch[w]) : \E i \in 1..Len(sinks_) :
         SinkThrows(w, k, i)
    \/ \E s \in Sinks : AddSink(s)
    \/ \E s \in Sinks : RemoveSink(s)
    \/ ClearSinks
    \/ \E lvl \in SetLevels : SetLevel(lvl)

SinkSpec == SinkInit /\ [][SinkNext]_vars

\* the same engine with a clock, flush() calls by a client thread, and a
\* sink list that only grows
FlushNext ==
    \/ Start
    \/ StopCall
    \/ StopReturn
    \/ LogCall("p1")
    \/ LogPush("p1")
    \/ \E w \in Workers : WorkerLoop(w)
    \/ \E w \in Workers : WorkerCollect(w)
    \/ \E w \in Workers : WorkerProcess(w)
    \/ \E w \in Workers : WorkerFlush(w)
    \/ \E w \in Workers : WorkerDrain(w)
    \/ \E w \in Workers : WorkerDrainMsg(w)
    \/ \E w \in Workers : \E k \in 1..Len(batch[w]) : \E i \in 1..Len(sinks_) :
         SinkThrows(w, k, i)
    \/ \E s \in Sinks : AddSink(s)
    \/ Flush
    \/ Tick

FlushSpec == SinkInit /\ [][FlushNext]_vars

\* the engine with one worker, one thread that logs, a thread that stops
\* it and a thread that calls wait_for_completion, under a clock
WaitNext ==
    \/ Start
    \/ StopCall
    \/ StopReturn
    \/ LogCall("p1")
    \/ LogPush("p1")
    \/ \E w \in Workers : WorkerLoop(w)
    \/ \E w \in Workers : WorkerCollect(w)
    \/ \E w \in Workers : WorkerProcess(w)
    \/ \E w \in Workers : WorkerFlush(w)
    \/ \E w \in Workers : WorkerDrain(w)
    \/ \E w \in Workers : WorkerDrainMsg(w)
    \/ \E timeout \in Timeouts : WaitCall(timeout)
    \/ WaitIsRunning
    \/ WaitQueueEmpty
    \/ WaitElapsed
    \/ WaitWake
    \/ WaitTick

\* the polling thread is scheduled, and time passes
WaitFairness == WF_vars(WaitStep) /\ WF_vars(WaitTick)

WaitSpec == SinkInit /\ [][WaitNext]_vars /\ WaitFairness

\* the LogManager: initialize, with or without the engine, then add_sink
\* and set_level, then log calls by one thread; the engine it builds has one
\* worker
ManagerNext ==
    \/ \E async \in BOOLEAN : ManagerInitialize(async)
    \/ ManagerStart
    \/ ManagerInitialized
    \/ \E s \in Sinks : nPush["p1"] = 0 /\ ManagerAddSink(s)
    \/ \E lvl \in ChildLevels : ManagerSetLevel(lvl)
    \/ initialized_ /\ ManagerLog("p1")
    \/ LogPush("p1")
    \/ \E w \in Workers : WorkerLoop(w)
    \/ \E w \in Workers : WorkerCollect(w)
    \/ \E w \in Workers : WorkerProcess(w)
    \/ \E w \in Workers : WorkerFlush(w)

ManagerSpec == SinkInit /\ [][ManagerNext]_vars

\* a LogManager without an engine, initialized and given sinks, and two
\* threads that call shutdown, flush, get_logger and create_logger
ManagerMutexNext ==
    \/ manager_mutex_ = NoOwner /\ ManagerInitialize(FALSE)
    \/ \E s \in Sinks : manager_mutex_ = NoOwner /\ manager_sinks_ = <<>> /\ ManagerAddSink(s)
    \/ \E c \in Callers : ShutdownLock(c)
    \/ \E c \in Callers : ShutdownBody(c)
    \/ \E c \in Callers : ManagerFlushLock(c)
    \/ \E c \in Callers : ManagerFlushBody(c)
    \/ \E c \in Callers : GetLoggerLock(c)
    \/ \E c \in Callers : GetLoggerBody(c)
    \/ \E c \in Callers : CreateLoggerLock(c)
    \/ \E c \in Callers : CreateLoggerBody(c)
    \/ \E c \in Callers : ManagerRelock(c)

ManagerMutexSpec == SinkInit /\ [][ManagerMutexNext]_vars

\* two levels, any two, and the comparison operators applied to them
LevelInit ==
    /\ InitQueue /\ InitThreads /\ InitMembers
    /\ InitDecorators /\ InitWait /\ InitManager
    /\ sinks_mutex_ = FALSE
    /\ InitSteps
    /\ sinks_ = <<>>
    /\ batch_size = 1
    /\ worker_threads = 1
    /\ InitFlushConfig
    /\ max_size_ = 0
    /\ pushBudget = 0
    /\ lhs \in Levels
    /\ rhs \in Levels
    /\ cmp = {}

LevelNext == \E op \in Operators : Compare(op)

LevelSpec == LevelInit /\ [][LevelNext]_vars

\* the running engine with process_batch taken record by record under
\* sinks_mutex_, one worker, one thread that logs, and client threads that
\* change the sink list, set the level and flush (once)
LockInit ==
    /\ InitQueue /\ InitThreads /\ InitMembers /\ InitObjects
    /\ sinks_ = <<>>
    /\ batch_size = MaxBatchSize
    /\ worker_threads = 1
    /\ InitFlushConfig
    /\ max_size_ = 0
    /\ pushBudget = MaxLockLogs

LockNext ==
    \/ Start
    \/ LogCall("p1")
    \/ LogPush("p1")
    \/ \E w \in Workers : WorkerLoop(w)
    \/ \E w \in Workers : WorkerCollect(w)
    \/ \E w \in Workers : BatchLock(w)
    \/ \E w \in Workers : BatchStep(w)
    \/ \E w \in Workers : BatchUnlock(w)
    \/ \E w \in Workers : BatchSkip(w)
    \/ \E w \in Workers : LockedWorkerFlush(w)
    \/ \E s \in Sinks : Len(sinks_) + 1 \in LockSinkCounts /\ LockedAddSink(s)
    \/ \E s \in Sinks : LockedRemoveSink(s)
    \/ LockedClearSinks
    \/ \E lvl \in SetLevels : LockedSetLevel(lvl)
    \/ flushLog = <<>> /\ LockedFlush

LockSpec == LockInit /\ [][LockNext]_vars

\* the engine with two workers collecting batches of up to MaxBatchSize
\* records from one thread's log calls
BatchInit ==
    /\ InitQueue /\ InitThreads /\ InitEngine
    /\ batch_size = MaxBatchSize
    /\ worker_threads = 2
    /\ InitFlushConfig
    /\ max_size_ = 0
    /\ pushBudget = MaxBatchLogs

BatchNext ==
    \/ Start
    \/ LogCall("p1")
    \/ LogPush("p1")
    \/ \E w \in Workers : WorkerLoop(w)
    \/ \E w \in Workers : WorkerCollect(w)
    \/ \E w \in Workers : WorkerProcess(w)
    \/ \E w \in Workers : WorkerFlush(w)

BatchSpec == BatchInit /\ [][BatchNext]_vars

\* the engine with two workers and one thread that logs, started and
\* stopped, with process_batch and process_message taken under sinks_mutex_
OrderNext ==
    \/ Start
    \/ StopCall
    \/ StopReturn
    \/ LogCall("p1")
    \/ LogPush("p1")
    \/ \E w \in Workers : WorkerLoop(w)
    \/ \E w \in Workers : WorkerCollect(w)
    \/ \E w \in Workers : BatchLock(w)
    \/ \E w \in Workers : BatchStep(w)
    \/ \E w \in Workers : BatchUnlock(w)
    \/ \E w \in Workers : BatchSkip(w)
    \/ \E w \in Workers : LockedWorkerFlush(w)
    \/ \E w \in Workers : WorkerDrain(w)
    \/ \E w \in Workers : LockedDrainMsg(w)

OrderSpec == BatchInit /\ [][OrderNext]_vars

\* the engine with one worker, a thread that logs and a thread that changes
\* the sink list, flushes and reads the queue's size, every mutex taken and
\* given back in a step of its own
MutexInit ==
    /\ InitQueue /\ InitThreads /\ InitMembers /\ InitObjects
    /\ sinks_ = <<"s1">>
    /\ batch_size = MaxBatchSize
    /\ worker_threads = 1
    /\ InitFlushConfig
    /\ max_size_ = 0
    /\ pushBudget = MaxMutexLogs

MutexNext ==
    \/ nStarts = 0 /\ Start
    \/ StopCall
    \/ StopReturn
    \/ now \in MutexTicks /\ Tick
    \/ LogCall("p1")
    \/ LogLock("p1")
    \/ LogStore("p1")
    \/ SizeLock("p2")
    \/ SizeReturn("p2")
    \/ SinksLock("p2")
    \/ SinksRun("p2")
    \/ \E w \in Workers : WorkerLoop(w)
    \/ \E w \in Workers : CollectLock(w)
    \/ \E w \in Workers : CollectPop(w)
    \/ \E w \in Workers : DispatchLock(w)
    \/ \E w \in Workers : DispatchRun(w)
    \/ \E w \in Workers : FlushCheck(w)
    \/ \E w \in Workers : FlushLock(w)
    \/ \E w \in Workers : FlushRun(w)
    \/ \E w \in Workers : DrainLock(w)
    \/ \E w \in Workers : DrainPop(w)
    \/ \E w \in Workers : DrainMsgLock(w)
    \/ \E w \in Workers : DrainMsgRun(w)

MutexSpec == MutexInit /\ [][MutexNext]_vars

\* the engine with two workers, started, the clock advancing, a thread that
\* logs, and auto_flush on or off; the worker's test of the flush time, the
\* lock of flush() and its body are steps of their own
AutoFlushInit ==
    /\ InitQueue /\ InitThreads /\ InitEngine
    /\ batch_size = MaxBatchSize
    /\ worker_threads = 2
    /\ auto_flush \in BOOLEAN
    /\ flush_interval_ms \in FlushIntervals
    /\ max_size_ = 0
    /\ pushBudget = MaxMutexLogs

AutoFlushNext ==
    \/ nStarts = 0 /\ Start
    \/ Tick
    \/ LogCall("p1")
    \/ LogLock("p1")
    \/ LogStore("p1")
    \/ \E w \in Workers : WorkerLoop(w)
    \/ \E w \in Workers : CollectLock(w)
    \/ \E w \in Workers : CollectPop(w)
    \/ \E w \in Workers : DispatchLock(w)
    \/ \E w \in Workers : DispatchRun(w)
    \/ \E w \in Workers : FlushCheck(w)
    \/ \E w \in Workers : FlushLock(w)
    \/ \E w \in Workers : FlushRun(w)

AutoFlushSpec == AutoFlushInit /\ [][AutoFlushNext]_vars

\* the engine with worker_threads = 1 and two threads that call start() and
\* stop(true) with nothing to keep them apart
LifeInit ==
    /\ InitQueue /\ InitThreads /\ InitEngine
    /\ batch_size = 1
    /\ worker_threads = 1
    /\ InitFlushConfig
    /\ max_size_ = 0
    /\ pushBudget = 0

LifeNext ==
    \/ \E c \in Callers : StartCheck(c)
    \/ \E c \in Callers : StartSet(c)
    \/ \E c \in Callers : StartSpawn(c)
    \/ \E c \in Callers : StopCheck(c)
    \/ \E c \in Callers : StopJoin(c)
    \/ \E c \in Callers : StopClear(c)
    \/ \E w \in Workers : WorkerLoop(w)
    \/ \E w \in Workers : WorkerCollect(w)
    \/ \E w \in Workers : WorkerProcess(w)
    \/ \E w \in Workers : WorkerFlush(w)
    \/ \E w \in Workers : WorkerDrain(w)

LifeSpec == LifeInit /\ [][LifeNext]_vars

\* a CompositeLogSink on its own: children are added and removed, given
\* thresholds directly and through the composite, and records dispatched
CompositeNext ==
    \/ \E c \in Children : CompositeAddSink(c)
    \/ \E c \in Children : CompositeRemoveSink(c)
    \/ CompositeClearSinks
    \/ \E lvl \in CompositeRecordLevels : CompositeLog(lvl)
    \/ CompositeFlush
    \/ \E lvl \in ChildLevels : CompositeSetLevel(lvl)
    \/ \E c \in Sinks : \E lvl \in ChildLevels : nDispatched = 0 /\ ChildSetLevel(c, lvl)

CompositeSpec == SinkInit /\ [][CompositeNext]_vars

\* a FilterLogSink on its own
FilterNext ==
    \/ \E f \in Predicates \cup {NoFilter} : FilterSetFilter(f)
    \/ \E lvl \in RecordLevels : FilterLog(lvl)
    \/ FilterFlush
    \/ \E lvl \in SetLevels : FilterSetLevel(lvl)
    \/ \E lvl \in ChildLevels : ChildSetLevel(FilterChild, lvl)

FilterSpec == SinkInit /\ [][FilterNext]_vars

TypeOK ==
    /\ Len(queue_) <= pushBudget
    /\ waitNE \subseteq Consumers
    /\ waitNF \subseteq Producers

\* ================================================================ claims
\* C1: a queue constructed with capacity C > 0 never stores more than C
\* items, whatever the interleaving of its operations.
C1_CapacityBound == max_size_ > 0 => Len(queue_) <= max_size_

\* the bounded queue is full while a producer is blocked in push
C1_Witness ==
    /\ max_size_ > 0 /\ Len(queue_) = max_size_
    /\ \E p \in Producers : pc[p] = "push_wait" /\ p \in waitNF

\* C2: try_push on a full bounded queue returns false at once and leaves
\* the stored items exactly as they were.
C2_DropNewest ==
    [][\A t \in Producers :
          (max_size_ > 0 /\ Len(queue_) = max_size_ /\ TryPush(t))
          => /\ ret'.ok = FALSE
             /\ pc'[t] = "idle"
             /\ queue_' = queue_
             /\ pushed' = pushed]_vars

\* a try_push was rejected by a full queue: no producer is inside a call,
\* the queue is open and full, and one call issued did not store its item
C2_Witness ==
    /\ ~shutdown_ /\ max_size_ > 0 /\ Len(queue_) = max_size_
    /\ \A p \in Producers : pc[p] = "idle"
    /\ CallsIssued > Len(pushed)
    /\ ret = Ret(FALSE, 0)

\* ---------------------------------------------------------------- queue
Range(q) == {q[i] : i \in 1..Len(q)}

\* the records sink s has received, in order, given the log of calls sl
RECURSIVE Delivered(_, _)
Delivered(sl, s) ==
    IF sl = <<>> THEN <<>>
    ELSE (IF Head(sl)[1] = s THEN <<Head(sl)[2]>> ELSE <<>>) \o Delivered(Tail(sl), s)

\* a is b with some items left out, the rest in b's order
RECURSIVE IsSubseq(_, _)
IsSubseq(a, b) ==
    IF a = <<>> THEN TRUE
    ELSE IF b = <<>> THEN FALSE
    ELSE IF Head(a) = Head(b) THEN IsSubseq(Tail(a), Tail(b))
    ELSE IsSubseq(a, Tail(b))

\* c is the only thread that has taken items out of the queue
OnlyConsumer(c) ==
    /\ nCleared = 0
    /\ \A d \in Consumers \ {c} : got[d] = <<>>

Waiting == {"push_wait", "pop_wait", "tpop_wait", "popb_wait"}

\* C6: with an unbounded queue and one consumer, every push stores its item
\* and each stored item is either still queued or has been received by the
\* consumer, exactly once: no duplicate, no omission.
C6_ExactlyOnce ==
    max_size_ = 0 =>
      /\ ~shutdown_ => Len(pushed) = CallsIssued
      /\ \A c \in Consumers :
           OnlyConsumer(c) =>
             /\ Len(got[c] \o queue_) = Len(pushed)
             /\ \A x \in Range(pushed) :
                  Cardinality({i \in 1..Len(got[c] \o queue_) : (got[c] \o queue_)[i] = x}) = 1

\* both producers pushed into an unbounded queue and one consumer drained it
C6_Witness ==
    /\ max_size_ = 0 /\ queue_ = <<>>
    /\ \A p \in Producers : nPush[p] >= 1
    /\ Len(pushed) = CallsIssued /\ Len(pushed) >= 2
    /\ OnlyConsumer("c1") /\ Len(got["c1"]) = Len(pushed)

\* C7: what one consumer receives is in the order the pushes took effect;
\* a consumer that is the only one receives exactly the front part.
C7_QueueFifo ==
    \A c \in Consumers :
        /\ IsSubseq(got[c], pushed)
        /\ OnlyConsumer(c) => got[c] \o queue_ = pushed

\* a single consumer has received the items of both producers
C7_Witness ==
    /\ OnlyConsumer("c1")
    /\ \A p \in Producers : \E i \in 1..Len(got["c1"]) : got["c1"][i][1] = p

\* C8: after shutdown() nothing is added to the queue; a pop returns at
\* once, with the front item while there is one and with false afterwards.
C8_ShutdownDrains ==
    [][shutdown_ =>
         /\ Len(queue_') <= Len(queue_)
         /\ \A t \in Consumers :
              (Pop(t) \/ PopWake(t)) =>
                /\ pc'[t] = "idle"
                /\ IF queue_ # <<>>
                   THEN /\ ret' = Ret(TRUE, 1)
                        /\ got'[t] = Append(got[t], Head(queue_))
                        /\ queue_' = Tail(queue_)
                   ELSE /\ ret' = Ret(FALSE, 0)
                        /\ got' = got
                        /\ queue_' = queue_]_vars

\* the queue held two items at shutdown(); one consumer has since received
\* exactly those, in order, and the call that returned last, a consumer's
\* since no producer's call has failed, returned false
C8_Witness ==
    /\ shutdown_ /\ Len(qAtShutdown) >= 2 /\ queue_ = <<>>
    /\ \E c \in Consumers : got[c] = qAtShutdown
    /\ \A t \in Threads : pc[t] = "idle"
    /\ CallsIssued = Len(pushed)
    /\ ret = Ret(FALSE, 0)

\* C9: the shutdown flag never resets, and once it is set no push or
\* try_push, new or woken from its wait, stores anything: each returns false
\* with the queue unchanged.
C9_ShutdownTerminal ==
    [][shutdown_ =>
         /\ shutdown_'
         /\ pushed' = pushed
         /\ \A t \in Producers :
              (Push(t) \/ TryPush(t) \/ PushWake(t)) =>
                /\ ret' = Ret(FALSE, 0)
                /\ pc'[t] = "idle"
                /\ queue_' = queue_]_vars

\* a producer's call on an unbounded queue has returned without storing
\* its item: such a call never finds the queue full, so it was issued after
\* shutdown() and failed although there was room
C9_Witness ==
    /\ shutdown_ /\ max_size_ = 0
    /\ \A p \in Producers : pc[p] = "idle"
    /\ CallsIssued > Len(pushed)

\* C10: once the queue is shut down, every thread that is inside push, pop
\* or pop_batch eventually returns, so that no thread is left waiting; a
\* producer, and a consumer that finds the queue empty, returns failure; a
\* second shutdown() changes nothing.
C10_ShutdownWakes ==
    /\ shutdown_ ~> (\A t \in Threads : pc[t] = "idle")
    /\ [][\A t \in Threads :
            (shutdown_ /\ pc[t] \in Waiting /\ pc'[t] = "idle"
               /\ (t \in Producers \/ queue_ = <<>>))
            => ret' = Ret(FALSE, 0)]_vars
    /\ [][(shutdown_ /\ Shutdown) => UNCHANGED vars]_vars

\* a producer and a consumer are both inside a blocking call of a queue
\* that has been shut down
C10_Witness ==
    /\ shutdown_
    /\ \E p \in Producers : pc[p] = "push_wait"
    /\ \E c \in Consumers : pc[c] \in {"pop_wait", "popb_wait"}

Min(a, b) == IF a < b THEN a ELSE b

\* C12: a pop_batch call with max_items >= 1 that returns has removed the
\* min(max_items, size) oldest items in one step, appended them in queue
\* order to what the caller holds, and returned that count; the count is 0
\* only on a queue that is shut down and empty.
C12_PopBatchExact ==
    [][\A t \in Consumers : \A n \in 1..MaxBatchArg :
         (/\ pc'[t] = "idle" /\ pc[t] \in {"idle", "popb_wait"}
          /\ nPush' = nPush /\ shutdown_' = shutdown_ /\ nCleared' = nCleared
          /\ PopBatchBody(t, n)
          /\ (PopBatch(t) \/ PopBatchWake(t)))
         => /\ ret' = Ret(Min(n, Len(queue_)) > 0, Min(n, Len(queue_)))
            /\ got'[t] = got[t] \o SubSeq(queue_, 1, Min(n, Len(queue_)))
            /\ queue_' = SubSeq(queue_, Min(n, Len(queue_)) + 1, Len(queue_))
            /\ ret'.n = 0 => (shutdown_ /\ queue_ = <<>>)]_vars

\* a consumer blocked in pop_batch(out, 1) has been notified and is about to
\* run while the queue holds two items
C12_Witness ==
    \E c \in Consumers :
        /\ pc[c] = "popb_wait" /\ c \notin waitNE /\ arg[c] = 1
        /\ Len(queue_) = 2

\* a consumer is blocked although the open queue holds an item
ConsumerStuck ==
    /\ ~shutdown_ /\ queue_ # <<>>
    /\ \E c \in Consumers : pc[c] \in {"pop_wait", "popb_wait"}

\* a producer is blocked although the open queue has room
ProducerStuck ==
    /\ ~shutdown_ /\ Len(queue_) < max_size_
    /\ \E p \in Producers : pc[p] = "push_wait"

\* C11: with only blocking calls and no shutdown, no wake-up is lost: a
\* consumer does not stay blocked for ever while the queue holds an item,
\* and a producer does not stay blocked for ever while the queue has room.
C11_NoLostWakeup ==
    /\ []<>~ConsumerStuck
    /\ []<>~ProducerStuck

\* both producers are blocked on the full queue while both consumers are
\* still inside the pop calls they started on the empty queue
C11_Witness ==
    /\ Len(queue_) = max_size_
    /\ \A p \in Producers : pc[p] = "push_wait"
    /\ \A c \in Consumers : pc[c] \in {"pop_wait", "popb_wait"}

\* ------------------------------------------------------------- AsyncLogger
\* at most one producer thread has called log()
SingleProducer == Cardinality({p \in Producers : nPush[p] > 0}) <= 1

\* C3: dropped_count() equals the number of log() calls rejected because
\* the queue was full.
C3_DropAccounting == dropped_count_ = nRejected

\* C4: when stop(true) returns, the queue is empty and every record log()
\* accepted has been dispatched to the sinks.
C4_NoLossOnStop ==
    [][StopReturn => /\ queue_' = <<>>
                     /\ Range(pushed') \subseteq Range(Delivered(sinkLog', "s1"))]_vars

\* C5: with one worker, sinks that do not fail, and one producer whose
\* records are never rejected,
\* the accept-all sink has received, in order, exactly the accepted records
\* that are neither queued nor in the worker's hands; so it has received
\* exactly the accepted sequence whenever nothing is in flight.
C5_FifoOneWorker ==
    (worker_threads = 1 /\ SingleProducer /\ nRejected = 0 /\ wpc[1] # "threw")
    => Delivered(sinkLog, "s1") \o batch[1] \o queue_ = pushed

\* one worker has delivered two or more records of one producer and has
\* finished its final drain
C5_Witness ==
    /\ worker_threads = 1 /\ SingleProducer /\ nRejected = 0
    /\ wpc[1] = "done"
    /\ Len(pushed) >= 2
    /\ Delivered(sinkLog, "s1") = pushed

\* C13: a sink whose log() throws during a dispatch does not end the
\* worker or the process, and the sinks after it in the pass still receive
\* the record.
C13_SinkFailureIsolated ==
    [][\A w \in Workers : \A k \in 1..Len(batch[w]) : \A i \in 1..Len(sinks_) :
         SinkThrows(w, k, i)
         => /\ ~aborted'
            /\ wpc'[w] # "threw"
            /\ \A j \in (i + 1)..Len(sinks_) :
                 should_log(sinks_[j], LevelOf(batch[w][k]))
                 => batch[w][k] \in Range(Delivered(sinkLog', sinks_[j]))]_vars

\* the log() calls one fan-out pass over the sink list ss makes for record r:
\* one for every sink whose threshold r.level reaches, in list order
Expected(ss, r) ==
    SelectSeq([i \in 1..Len(ss) |-> <<ss[i], r>>],
              LAMBDA c : LevelOf(r) >= level_[c[1]])

RECURSIVE ExpectedAll(_, _)
ExpectedAll(ss, b) ==
    IF b = <<>> THEN <<>> ELSE Expected(ss, Head(b)) \o ExpectedAll(ss, Tail(b))

\* C14: a dispatch invokes log(r) on exactly the sinks registered at that
\* moment whose threshold at that moment is at most r.level, in the order
\* in which they were added.
C14_FilteredFanOut ==
    [][\A w \in Workers :
         /\ WorkerDrainMsg(w) => sinkLog' = sinkLog \o Expected(sinks_, batch[w][1])
         /\ WorkerProcess(w) => sinkLog' = sinkLog \o ExpectedAll(sinks_, batch[w])]_vars

\* s2 was added before s1 and set_level(INFO) has lowered both thresholds:
\* an INFO record, which s2 would have refused at first, has gone to s2 and
\* then to s1
C14_Witness ==
    /\ sinks_ = <<"s2", "s1">>
    /\ level_ = [s \in Sinks |-> INFO]
    /\ sinkLog = <<<<"s2", <<"p1", 1>>>>, <<"s1", <<"p1", 1>>>>>>

\* C15: a log() call on an engine that is not running returns false at
\* once and leaves the queue as it was.
C15_LogWhenStopped ==
    [][\A t \in Producers :
         (LogCall(t) /\ ~running_)
         => /\ ret' = Ret(FALSE, 0)
            /\ pc'[t] = "idle"
            /\ queue_' = queue_ /\ pushed' = pushed]_vars

\* the engine has run and accepted a record, stop() has returned, and the
\* call that returned last, a log() on the unbounded queue, returned false
C15_Witness ==
    /\ ~running_ /\ ~aborted /\ cpc = "idle" /\ nStarts >= 1
    /\ max_size_ = 0 /\ Len(pushed) >= 1
    /\ \A p \in Producers : pc[p] = "idle"
    /\ ret = Ret(FALSE, 0)

\* C16: start() on a running engine and stop() on a stopped engine change
\* nothing, and a running engine has exactly worker_threads workers however
\* often start() was called.
C16_Idempotent ==
    /\ [][(Start /\ running_) => UNCHANGED vars]_vars
    /\ [][(StopCall /\ ~running_) => UNCHANGED vars]_vars
    /\ []((running_ /\ ~aborted) => Cardinality(workers_) = worker_threads)

\* the engine runs for the second time with its two workers and the
\* controller is free to call start() again
C16_Witness ==
    /\ running_ /\ ~aborted /\ cpc = "idle"
    /\ nStarts = 2 /\ worker_threads = 2
    /\ Cardinality(workers_) = 2

\* the lifecycle state the two flags stand for
Lifecycle ==
    IF ~running_ THEN "Stopped"
    ELSE IF stop_requested_ THEN "Stopping" ELSE "Running"

C18_StopNoWaitSafe ==
    [][(StopCall /\ running_ /\ cpc' # "join")
       => /\ ~aborted'
          /\ \A w \in workers_ : wpc'[w] = wpc[w]]_vars

C20_DropRate ==
    IF nRejected + Len(queue_) = 0
    THEN get_drop_rate[1] = 0
    ELSE get_drop_rate[1] * (nRejected + Len(queue_)) = nRejected * get_drop_rate[2]

\* a sequence without a repeated element
NoDup(q) == \A i, j \in 1..Len(q) : i # j => q[i] # q[j]

\* the records the workers hold, worker after worker
RECURSIVE InHands(_)
InHands(ws) ==
    IF ws = {} THEN <<>>
    ELSE LET w == CHOOSE v \in ws : TRUE IN batch[w] \o InHands(ws \ {w})

\* C21: a record is in the queue or in the hands of one worker, never in
\* two places; no sink is called twice with the same record; and a record
\* that has reached a sink is no longer in the queue or in a worker's hands
\* unless the pass that served it was cut short by a failing sink.
C21_HandOff ==
    /\ NoDup(queue_ \o InHands(Workers))
    /\ NoDup(sinkLog)
    /\ \A w \in Workers :
         wpc[w] # "threw"
         => \A i \in 1..Len(sinkLog) : sinkLog[i][2] \notin Range(batch[w] \o queue_)

\* two workers hold a record each at the same time
C21_Witness ==
    /\ worker_threads = 2
    /\ \A w \in Workers : batch[w] # <<>> /\ wpc[w] \in {"collect", "process"}

\* C22: on an engine that keeps running, again and again every record
\* log() has accepted so far has been dispatched; so each accepted record
\* is eventually dispatched, without any call of stop().
C22_DeliveryLiveness ==
    []<>(Range(pushed) \subseteq Range(Delivered(sinkLog, "s1")))

\* the running engine has dispatched the two records it accepted
C22_Witness ==
    /\ Lifecycle = "Running"
    /\ Len(pushed) = 2
    /\ Range(pushed) \subseteq Range(Delivered(sinkLog, "s1"))

\* C23: set_level(L) gives the threshold L to exactly the sinks registered
\* at the call and changes nothing else; add_sink leaves every threshold,
\* that of the added sink included, as it is.
C23_SetLevelCascade ==
    /\ [][\A lvl \in SetLevels :
            SetLevel(lvl)
            => /\ \A s \in Sinks :
                    level_'[s] = IF s \in Range(sinks_) THEN lvl ELSE level_[s]
               /\ sinks_' = sinks_]_vars
    /\ [][\A s \in Sinks : AddSink(s) => level_' = level_]_vars

\* s1 has been given INFO by a set_level call; s2, which was not registered
\* at any such call and has been added since, still has its own WARN
C23_Witness ==
    /\ sinks_ = <<"s1", "s2">>
    /\ level_["s1"] = INFO /\ level_["s2"] = WARN


\* the children of ss that are not empty pointers and satisfy Test
AcceptedBy(ss, Test(_)) == SelectSeq(ss, LAMBDA c : c # NullSink /\ Test(c))

\* C24: CompositeLogSink::log(r) hands r to exactly the children whose own
\* threshold is at or below r's level, in the order they were added and
\* whatever the composite's own threshold is; flush() reaches every child.
C24_CompositeFanOut ==
    /\ [][\A lvl \in CompositeRecordLevels : CompositeLog(lvl)
            => LET to == AcceptedBy(composite_sinks_, LAMBDA c : level_[c] <= lvl)
               IN  childLog' = childLog \o [i \in 1..Len(to) |-> <<"log", to[i], lvl>>]]_vars
    /\ [][CompositeFlush
            => LET to == AcceptedBy(composite_sinks_, LAMBDA c : TRUE)
               IN  childLog' = childLog \o [i \in 1..Len(to) |-> <<"flush", to[i]>>]]_vars

\* children with thresholds INFO and ERROR under a composite whose own
\* threshold is ERROR: a WARN record has reached the first child only
C24_Witness ==
    /\ composite_sinks_ = <<"s1", "s2">>
    /\ level_["s1"] = INFO /\ level_["s2"] = ERROR
    /\ composite_level_ = ERROR
    /\ childLog = <<<<"log", "s1", WARN>>>>

\* C25: FilterLogSink::log(r) hands r to the wrapped sink exactly when a
\* filter is set and returns true for r; flush() always reaches the wrapped
\* sink; get_level() and should_log() answer as the wrapped sink does.
C25_FilterGating ==
    /\ [][\A lvl \in RecordLevels : FilterLog(lvl)
            => /\ (childLog' # childLog) <=> (filter_ # NoFilter /\ lvl \in filter_[1])
               /\ childLog' \in {childLog, Append(childLog, <<"log", FilterChild, lvl>>)}]_vars
    /\ [][FilterFlush => childLog' = Append(childLog, <<"flush", FilterChild>>)]_vars
    /\ [](/\ FilterGetLevel = level_[FilterChild]
          /\ \A lvl \in RecordLevels :
               FilterShouldLog(lvl) <=> should_log(FilterChild, lvl))

\* the filter "level >= WARN" around a child whose threshold was changed
\* after the filter's own: the INFO record was held back, the WARN record
\* and the flush went through
C25_Witness ==
    /\ filter_ = <<{WARN, ERROR, FATAL}>>
    /\ filter_level_ = INFO /\ level_[FilterChild] = ERROR
    /\ childLog = <<<<"log", FilterChild, WARN>>, <<"flush", FilterChild>>>>


C27_QuickStart ==
    (/\ async_logger_ /\ initialized_
     /\ queue_ \o InHands(Workers) = <<>> /\ pc["p1"] = "idle")
    => \A i \in 1..Len(pushed) : \A s \in Range(manager_sinks_) :
         should_log(s, LevelOf(pushed[i]))
         => pushed[i] \in Range(Delivered(sinkLog, s))


\* the place of a level in the order the claim gives
Rank(l) ==
    CHOOSE i \in 1..7 : <<TRACE, DEBUG, INFO, WARN, ERROR, FATAL, OFF>>[i] = l

\* the result of lhs op rhs, where it has been evaluated
Evaluated(op) == \E r \in BOOLEAN : <<op, r>> \in cmp
Result(op) == <<op, TRUE>> \in cmp

\* C28: the comparison operators of LogLevel order the levels TRACE < DEBUG
\* < INFO < WARN < ERROR < FATAL < OFF: a < b says that a comes before b,
\* exactly one of a < b, a == b, a > b holds, a >= b is the negation of
\* a < b and a <= b the negation of a > b; should_log compares with the same
\* >=.
C28_LevelOrder ==
    /\ \A op \in Operators : ~(<<op, TRUE>> \in cmp /\ <<op, FALSE>> \in cmp)
    /\ Evaluated("<") => (Result("<") <=> Rank(lhs) < Rank(rhs))
    /\ Evaluated(">") => (Result(">") <=> Rank(lhs) > Rank(rhs))
    /\ (Evaluated("<") /\ Evaluated("==") /\ Evaluated(">"))
       => Cardinality({op \in {"<", "==", ">"} : Result(op)}) = 1
    /\ (Evaluated(">=") /\ Evaluated("<")) => (Result(">=") <=> ~Result("<"))
    /\ (Evaluated("<=") /\ Evaluated(">")) => (Result("<=") <=> ~Result(">"))
    /\ (Evaluated(">=") /\ level_["s1"] = rhs)
       => (Result(">=") <=> should_log("s1", lhs))

\* INFO compared with INFO by every operator: <= and >= hold, < and > do not
C28_Witness ==
    /\ lhs = INFO /\ rhs = INFO
    /\ \A op \in Operators : Evaluated(op)
    /\ Result("<=") /\ Result(">=") /\ ~Result("<") /\ ~Result(">")


\* C29: from the first to the last sink invocation of a batch, nothing the
\* engine's add_sink, remove_sink, clear_sinks, set_level or flush does takes
\* effect: while a worker stays inside process_batch the sink list, the
\* thresholds and the record of flushes do not change, and the lock is held.
C29_StableSnapshot ==
    [][(\E w \in Workers : wpc[w] = "dispatch" /\ wpc'[w] = "dispatch")
         => /\ sinks_' = sinks_
            /\ level_' = level_
            /\ flushLog' = flushLog
            /\ sinks_mutex_ /\ sinks_mutex_']_vars

\* a worker in the middle of a batch of two: the first record has been
\* handed to the sinks, the second not yet, and the lock is held
C29_Witness ==
    /\ wpc[1] = "dispatch" /\ sinks_mutex_
    /\ Len(pushed) = 2 /\ batch[1] = <<pushed[2]>>
    /\ sinks_ # <<>>
    /\ pushed[1] \in {sinkLog[i][2] : i \in 1..Len(sinkLog)}


\* q is a run of consecutive items of p
IsRun(q, p) ==
    q = <<>> \/ \E i \in 1..Len(p) :
                  i + Len(q) - 1 <= Len(p) /\ q = SubSeq(p, i, i + Len(q) - 1)

\* C30: the batch a worker has collected is a contiguous run of the queue's
\* FIFO sequence: no record taken by another worker lies between two of its
\* records in enqueue order.
C30_ContiguousBatch == \A w \in Workers : IsRun(batch[w], pushed)


\* the entries of the log of sink calls sl that are for record r
CallsFor(sl, r) == SelectSeq(sl, LAMBDA c : c[2] = r)

\* C31: with two workers and one producer, each record a worker dispatches
\* was enqueued after the record it dispatched before, and from the first to
\* the last record of a batch no other worker calls a sink: a step that
\* calls a sink is taken by the one worker inside process_batch, or by a
\* draining worker while no worker is inside process_batch.
C31_PerWorkerOrder ==
    /\ [][\A w \in Workers :
            (wpc[w] \in {"dispatch", "drain_msg"} /\ lastBy'[w] # lastBy[w])
            => lastBy'[w] > lastBy[w]]_vars
    /\ [][\A w \in Workers :
            (wpc[w] = "dispatch" /\ sinkLog' # sinkLog)
            => /\ batch[w] # <<>> /\ batch'[w] = Tail(batch[w])
               /\ \A v \in Workers \ {w} : wpc[v] # "dispatch" /\ batch'[v] = batch[v]
               /\ CallsFor(sinkLog', Head(batch[w])) # <<>>
               /\ Len(sinkLog') = Len(sinkLog) + Len(CallsFor(sinkLog', Head(batch[w])))]_vars

\* worker 1 has dispatched the first and the third record, worker 2 the
\* second, and the sink got them out of enqueue order
C31_Witness ==
    /\ lastBy[1] = 3 /\ lastBy[2] = 2
    /\ Delivered(sinkLog, "s1") = <<<<"p1", 1>>, <<"p1", 3>>, <<"p1", 2>>>>


\* C32: no thread ever holds the queue's mutex and sinks_mutex_ together,
\* whatever it is doing: log, collecting a batch, the final drain, flush,
\* a change of the sink list, or reading the queue's size.
C32_NoLockNesting ==
    /\ \A w \in Workers : ~({QueueMutex, SinksMutex} \subseteq wheld[w])
    /\ \A t \in Producers : ~({QueueMutex, SinksMutex} \subseteq cheld[t])

\* both mutexes are held at once, by different threads: a worker is inside
\* process_batch while a client thread is inside queue_.size()
C32_Witness ==
    /\ \E w \in Workers : wpc[w] = "dispatch" /\ wheld[w] = {SinksMutex}
    /\ pc["p2"] = "size_locked" /\ cheld["p2"] = {QueueMutex}


\* C33: once stop(true) has set the stop flag on a running engine, every
\* worker leaves its loop, finishes its final drain and exits, and stop
\* returns with the engine stopped; until it has exited a worker always has
\* a step to take, so it never waits on the queue.
C33_StopTerminates ==
    /\ (cpc = "join") ~> (cpc = "idle" /\ ~running_ /\ workers_ = {})
    /\ [](cpc = "join" => \A w \in workers_ : wpc[w] = "done" \/ ENABLED WorkerRun(w))

\* stop(true) has returned on an engine that had accepted records: the
\* workers are gone and the queue is empty
C33_Witness ==
    /\ nStarts >= 1 /\ ~running_ /\ ~aborted /\ cpc = "idle" /\ stop_requested_
    /\ workers_ = {}
    /\ Len(pushed) >= 2 /\ queue_ = <<>>


\* C34: a worker runs flush() only with auto_flush on and, when the flush
\* is performed, at least flush_interval after the last recorded flush; so
\* with auto_flush off no sink is flushed, and two flushes by workers are
\* at least flush_interval apart.
C34_AutoFlushGating ==
    /\ [][\A w \in Workers :
            (wpc[w] = "flushing" /\ wpc'[w] = "loop")
            => /\ auto_flush
               /\ now - last_flush_time_ >= flush_interval_ms]_vars
    /\ [][flushLog' # flushLog => auto_flush]_vars


\* C38: last_flush_time_ is never read or written by one thread while
\* another thread is about to write it, unless both hold sinks_mutex_: no
\* worker is at the test of should_auto_flush, which reads it, while
\* another worker is inside flush(), which writes it.
C38_FlushTimeRaceFree ==
    \A w, v \in Workers :
        (w # v /\ wpc[v] = "flushing" /\ wpc[w] = "flush" /\ auto_flush)
        => SinksMutex \in wheld[w]


\* C35: whatever the interleaving of start() and stop() calls by different
\* threads, no more than worker_threads worker threads run at a time, and
\* no worker thread has join() called on it by two callers.
C35_WorkerPoolBound ==
    /\ Cardinality(LiveWorkers) <= worker_threads
    /\ \A w \in Workers : Cardinality(joiners[w]) <= 1


\* C36: no LogManager call locks mutex_ while its thread owns it, so
\* shutdown() on an initialized manager and get_logger(name) for a name not
\* yet known return: no thread is at a lock_guard of the mutex it holds, and
\* none is blocked on it for ever.
C36_NoRelock ==
    \A c \in Callers :
        /\ mpc[c] \in {"shutdown_flush", "get_create"} => manager_mutex_ # c
        /\ mpc[c] # "deadlock"


\* how many times sink s is in the list ss
Count(ss, s) == Len(SelectSeq(ss, LAMBDA x : x = s))

\* C37: every call of a sink's log or flush is on a sink that is in the
\* list at the call; remove_sink(S) with S registered once, and
\* clear_sinks(), leave S out of the list, so S is not called after they
\* return; and the list changes only while no worker is inside a dispatch
\* pass, so a pass under way is finished before the removal is done.
C37_RemovalAtReturn ==
    /\ [][/\ \A i \in (Len(sinkLog) + 1)..Len(sinkLog') : sinkLog'[i][1] \in Range(sinks_)
          /\ \A i \in (Len(flushLog) + 1)..Len(flushLog') : flushLog'[i] \in Range(sinks_)]_vars
    /\ [][\A s \in Sinks : (LockedRemoveSink(s) /\ Count(sinks_, s) = 1)
                            => s \notin Range(sinks_')]_vars
    /\ [][LockedClearSinks => sinks_' = <<>>]_vars
    /\ [][sinks_' # sinks_ => \A w \in Workers : wpc[w] # "dispatch" /\ wpc'[w] = wpc[w]]_vars

\* s1 got the first record and was removed; the second record, which s1's
\* threshold lets through, was dispatched afterwards and reached s2 only
C37_Witness ==
    /\ sinks_ = <<"s2">>
    /\ Delivered(sinkLog, "s1") = <<<<"p1", 1>>>>
    /\ Delivered(sinkLog, "s2") = <<<<"p1", 2>>>>

====
